---- MODULE Spec2Model ----
(***************************************************************************)
(* Model of the OCT report pipeline of sawaiyutaka/data_extraction:        *)
(*   src/oct/combine.py     Cross-Table Merger                             *)
(*   src/oct/noise_mask.py  Noise Mask Applier                             *)
(*   src/oct/angio.py       Per-File Aggregator (density pipeline)         *)
(*   src/oct/oct.py         Per-File Aggregator (thickness pipeline)       *)
(*   src/age/age_data.py    Identifier Canonicalizer                       *)
(*   src/oct/angio_error.py Error-map expansion                            *)
(*                                                                         *)
(* Text is modelled as a sequence of characters, each character a one-    *)
(* token string ("5", ".", " "; "U+FF11" is the full-width digit one), so  *)
(* that str.strip(), float() and sorted() are computed and not assumed.    *)
(* A dict is a function from keys to values; an Optional value is <<>>     *)
(* (None) or <<v>>.                                                        *)
(***************************************************************************)
EXTENDS Integers, Sequences, FiniteSets, TLC

\* ------------------------------------------------------------------ bounds
\* Data rows of the two merger input files, taken together.
MaxRows == 2
\* Cells of a header of the merger's column-union specification.
MaxCols == 3
\* Data rows of an identifier-only merger input file.
MaxIdRows == 2
\* Rows of the noise annotation table.
MaxNoiseRows == 2
\* Report files of one cohort directory.
MaxFiles == 3
\* Data rows of the score files, taken together.
MaxAgeRows == 3

\* Data rows of the error-map table.
MaxErrRows == 1

\* ------------------------------------------------------------------- text
Range(s) == {s[i] : i \in 1..Len(s)}

SetMax(S) == CHOOSE x \in S : \A y \in S : y <= x

\* The characters of the model in code point order (Python compares str by
\* code point); "U+FF11" is the full-width digit one, above every ASCII one.
Alphabet ==
  << "\t", "\n", " ", "+", ",", "-", ".", "/", "0", "1", "2", "3", "4", "5",
     "6", "7", "8", "9", "C", "D", "E", "G", "I", "L", "N", "R", "_", "a", "c", "e", "f",
     "i", "n", "o", "r", "s", "t", "v", "y", "U+FF11" >>

Code(c) == CHOOSE i \in 1..Len(Alphabet) : Alphabet[i] = c

\* str.isspace() of one character
IsSpace(c) == c \in {" ", "\t", "\n"}

\* decimal digits float() accepts (Unicode decimal digits included)
IsDigit(c) ==
  c \in {"0", "1", "2", "3", "4", "5", "6", "7", "8", "9", "U+FF11"}

RECURSIVE LStrip(_)
LStrip(s) == IF s # <<>> /\ IsSpace(Head(s)) THEN LStrip(Tail(s)) ELSE s

RECURSIVE RStrip(_)
RStrip(s) ==
  IF s # <<>> /\ IsSpace(s[Len(s)]) THEN RStrip(SubSeq(s, 1, Len(s) - 1)) ELSE s

\* str.strip()
Strip(s) == RStrip(LStrip(s))

\* str.lower() on the letters float() gives a meaning to
LowerChar(c) == CASE c = "I" -> "i" [] c = "N" -> "n" [] c = "E" -> "e" [] OTHER -> c

Lower(s) == [i \in 1..Len(s) |-> LowerChar(s[i])]

\* The index after the longest digit run (digits, single underscores between
\* digits) of s that starts at i; i itself when s has no digit at i.
RECURSIVE DigitRun(_, _)
DigitRun(s, i) ==
  IF i <= Len(s) /\ IsDigit(s[i])
  THEN IF i + 2 <= Len(s) /\ s[i + 1] = "_" /\ IsDigit(s[i + 2])
       THEN DigitRun(s, i + 2)
       ELSE DigitRun(s, i + 1)
  ELSE i

\* Whether float(t) succeeds, t already stripped: [sign] digits [. [digits]]
\* [e [sign] digits], [sign] . digits [exponent], or [sign] inf|infinity|nan.
ParsesAsFloat(t) ==
  LET p0   == IF t # <<>> /\ t[1] \in {"+", "-"} THEN 2 ELSE 1
      body == SubSeq(t, p0, Len(t))
      a    == DigitRun(t, p0)
      dot  == a <= Len(t) /\ t[a] = "."
      b    == IF dot THEN a + 1 ELSE a
      c    == IF dot THEN DigitRun(t, b) ELSE a
      mant == a > p0 \/ (dot /\ c > b)
      hasE == c <= Len(t) /\ t[c] \in {"e", "E"}
      d    == IF c + 1 <= Len(t) /\ t[c + 1] \in {"+", "-"} THEN c + 2 ELSE c + 1
      e    == DigitRun(t, d)
  IN  \/ Lower(body) \in { <<"i", "n", "f">>, <<"n", "a", "n">>,
                           <<"i", "n", "f", "i", "n", "i", "t", "y">> }
      \/ /\ mant
         /\ IF hasE THEN e > d /\ e = Len(t) + 1 ELSE c = Len(t) + 1

\* s < t in Python's str order
RECURSIVE StrLess(_, _)
StrLess(s, t) ==
  IF t = <<>> THEN FALSE
  ELSE IF s = <<>> THEN TRUE
  ELSE IF Head(s) = Head(t) THEN StrLess(Tail(s), Tail(t))
  ELSE Code(Head(s)) < Code(Head(t))

\* sorted() of a set of str
RECURSIVE Sorted(_)
Sorted(S) ==
  IF S = {} THEN <<>>
  ELSE LET m == CHOOSE x \in S : \A y \in S \ {x} : StrLess(x, y)
       IN  <<m>> \o Sorted(S \ {m})

\* The empty cell, and the names and cell texts of the model.
Empty == <<>>
ID_COL == <<"I", "D">>
CENTER == <<"C", "e", "n", "t", "e", "r">>
R_CENTER == <<"R", "_">> \o CENTER
L_CENTER == <<"L", "_">> \o CENTER
EG0001 == <<"E", "G", "0", "0", "0", "1">>
EG0002 == <<"E", "G", "0", "0", "0", "2">>

\* --------------------------------------------------------------- combine.py
\* dict.get(c, "")
Get(d, c) == IF c \in DOMAIN d THEN d[c] ELSE Empty

\* to_dicts: one dict per data row; a header name takes the cell of its last
\* position within the row, and "" when the row is too short.
ToDict(header, row) ==
  [h \in Range(header) |->
     LET at == {i \in 1..Len(header) : header[i] = h /\ i <= Len(row)}
     IN  IF at = {} THEN Empty ELSE row[SetMax(at)]]

to_dicts(header, data) == [k \in 1..Len(data) |-> ToDict(header, data[k])]

\* norm of union_columns: the names that are not blank
Norm(cols) == SelectSeq(cols, LAMBDA c : c # <<>> /\ Strip(c) # <<>>)

\* the loop of union_columns: append the names of src not yet in cols
RECURSIVE AppendUnseen(_, _)
AppendUnseen(cols, src) ==
  IF src = <<>> THEN cols
  ELSE LET c == Head(src)
       IN  IF c = ID_COL \/ c \in Range(cols)
           THEN AppendUnseen(cols, Tail(src))
           ELSE AppendUnseen(Append(cols, c), Tail(src))

\* mutant of union_columns: the base header's columns come first
union_columns_base_first(h1, h2) ==
  LET a  == Norm(h1)
      b  == Norm(h2)
      c0 == IF ID_COL \in Range(a) \/ ID_COL \in Range(b) THEN <<ID_COL>> ELSE <<>>
  IN  AppendUnseen(AppendUnseen(c0, b), a)

union_columns(h1, h2) ==
  LET a  == Norm(h1)
      b  == Norm(h2)
      c0 == IF ID_COL \in Range(a) \/ ID_COL \in Range(b) THEN <<ID_COL>> ELSE <<>>
  IN  AppendUnseen(AppendUnseen(c0, a), b)

\* the key index_by_id gives a row
RowKey(d) == Strip(Get(d, ID_COL))

\* mutant of index_by_id: the identifier is keyed as written, not stripped
index_by_id_unstripped(rows) ==
  LET keys == {Get(rows[i], ID_COL) : i \in 1..Len(rows)} \ {Empty}
  IN  [k \in keys |-> rows[SetMax({i \in 1..Len(rows) : Get(rows[i], ID_COL) = k})]]

\* index_by_id: key -> the last row carrying it; blank keys are skipped
index_by_id(rows) ==
  LET keys == {RowKey(rows[i]) : i \in 1..Len(rows)} \ {Empty}
  IN  [k \in keys |-> rows[SetMax({i \in 1..Len(rows) : RowKey(rows[i]) = k})]]

ensure_columns(d, columns) == [c \in Range(columns) |-> Get(d, c)]

is_number_str(s) ==
  LET t == Strip(s) IN IF t = Empty THEN FALSE ELSE ParsesAsFloat(t)

\* mutant of MergeCell: the base file wins a conflict of two numbers
MergeCell_old_wins(old_cell, new_cell) ==
  LET old_val == Strip(old_cell)
      new_val == Strip(new_cell)
  IN  IF is_number_str(old_val) THEN old_val
      ELSE IF is_number_str(new_val) THEN new_val
      ELSE Empty

\* mutant of MergeCell: a number held by the base file alone is dropped
MergeCell_new_only(old_cell, new_cell) ==
  LET new_val == Strip(new_cell)
  IN  IF is_number_str(new_val) THEN new_val ELSE Empty

\* one cell of merge_rows_cellwise
MergeCell(old_cell, new_cell) ==
  LET old_val == Strip(old_cell)
      new_val == Strip(new_cell)
      old_is_num == is_number_str(old_val)
      new_is_num == is_number_str(new_val)
  IN  IF old_is_num /\ new_is_num THEN new_val
      ELSE IF old_is_num /\ ~new_is_num THEN old_val
      ELSE IF ~old_is_num /\ new_is_num THEN new_val
      ELSE Empty

merge_rows_cellwise(old_row, new_row, columns) ==
  [col \in Range(columns) |->
     IF col = ID_COL
     THEN Strip(IF Get(new_row, col) # Empty THEN Get(new_row, col)
                ELSE Get(old_row, col))
     ELSE MergeCell(Get(old_row, col), Get(new_row, col))]

\* mutant of MergedRow: every identifier goes through the cell-wise merge
MergedRow_always_cellwise(id_, old_by_id, new_by_id, columns) ==
  merge_rows_cellwise(
    ensure_columns(IF id_ \in DOMAIN old_by_id THEN old_by_id[id_] ELSE <<>>, columns),
    ensure_columns(IF id_ \in DOMAIN new_by_id THEN new_by_id[id_] ELSE <<>>, columns),
    columns)

\* the row merge_csv builds for one identifier of all_ids
MergedRow(id_, old_by_id, new_by_id, columns) ==
  IF id_ \notin DOMAIN old_by_id
  THEN ensure_columns(new_by_id[id_], columns)
  ELSE IF id_ \notin DOMAIN new_by_id
  THEN ensure_columns(old_by_id[id_], columns)
  ELSE merge_rows_cellwise(ensure_columns(old_by_id[id_], columns),
                           ensure_columns(new_by_id[id_], columns), columns)

\* merge_csv: the header and the data rows it writes, from the two files read
merge_csv(new_file, old_file) ==
  LET columns   == union_columns(new_file.header, old_file.header)
      new_by_id == index_by_id(to_dicts(new_file.header, new_file.data))
      old_by_id == index_by_id(to_dicts(old_file.header, old_file.data))
      all_ids   == Sorted(DOMAIN old_by_id \cup DOMAIN new_by_id)
  IN  [ columns |-> columns,
        ids     |-> all_ids,
        rows    |-> [k \in 1..Len(all_ids) |->
                       MergedRow(all_ids[k], old_by_id, new_by_id, columns)] ]

\* ------------------------------------------------------------ noise_mask.py
Q_SUPERIOR == <<"S", "u", "p", "e", "r", "i", "o", "r">>
Q_INFERIOR == <<"I", "n", "f", "e", "r", "i", "o", "r">>
Q_NASAL == <<"N", "a", "s", "a", "l">>
Q_TEMPORAL == <<"T", "e", "m", "p", "o", "r", "a", "l">>
INNER == <<"I", "n", "n", "e", "r">>
OUTER == <<"O", "u", "t", "e", "r">>
EYE_L == <<"L">>
EYE_R == <<"R">>
ONE == <<"1">>
FW_ONE == <<"U+FF11">>

\* f"{eye}-{quad}", f"{eye}-Inner_{quad}", f"{eye}-Outer_{quad}"
QuadKey(eye, quad) == eye \o <<"-">> \o quad
InnerCol(eye, quad) == eye \o <<"-">> \o INNER \o <<"_">> \o quad
OuterCol(eye, quad) == eye \o <<"-">> \o OUTER \o <<"_">> \o quad

\* mutant of TARGETS: a flagged quadrant reaches its Inner sector only
TARGETS_inner_only ==
  LET pairs == {<<eye, quad>> : eye \in {EYE_L, EYE_R},
                                quad \in {Q_SUPERIOR, Q_INFERIOR, Q_NASAL, Q_TEMPORAL, CENTER}}
  IN  [key \in {QuadKey(p[1], p[2]) : p \in pairs} |->
         LET p == CHOOSE p \in pairs : QuadKey(p[1], p[2]) = key
         IN  IF p[2] = CENTER THEN <<QuadKey(p[1], CENTER)>>
             ELSE <<InnerCol(p[1], p[2])>>]

\* TARGETS: noise column -> the columns to blank
TARGETS ==
  LET pairs == {<<eye, quad>> : eye \in {EYE_L, EYE_R},
                                quad \in {Q_SUPERIOR, Q_INFERIOR, Q_NASAL, Q_TEMPORAL, CENTER}}
  IN  [key \in {QuadKey(p[1], p[2]) : p \in pairs} |->
         LET p == CHOOSE p \in pairs : QuadKey(p[1], p[2]) = key
         IN  IF p[2] = CENTER THEN <<QuadKey(p[1], CENTER)>>
             ELSE <<InnerCol(p[1], p[2]), OuterCol(p[1], p[2])>>]

NOISE_COLUMNS ==
  << ID_COL,
     QuadKey(EYE_L, Q_SUPERIOR), QuadKey(EYE_L, Q_INFERIOR), QuadKey(EYE_L, Q_NASAL),
     QuadKey(EYE_L, Q_TEMPORAL), QuadKey(EYE_L, CENTER),
     QuadKey(EYE_R, Q_SUPERIOR), QuadKey(EYE_R, Q_INFERIOR), QuadKey(EYE_R, Q_TEMPORAL),
     QuadKey(EYE_R, Q_NASAL), QuadKey(EYE_R, CENTER) >>

\* index_by_id of noise_mask.py: key -> the position in rows of the last row
\* carrying it (the dict holds a reference to that row)
noise_index_by_id(rows) ==
  LET keys == {Strip(Get(rows[i], ID_COL)) : i \in 1..Len(rows)} \ {Empty}
  IN  [k \in keys |-> SetMax({i \in 1..Len(rows) : Strip(Get(rows[i], ID_COL)) = k})]

\* mutant of is_noise: any code that is not blank is a flag, "0" included
is_noise_nonblank(val) == Strip(val) # Empty

\* mutant of is_noise: any code holding the digit 1 is a flag
is_noise_contains_1(val) == \E i \in 1..Len(val) : val[i] \in {"1", "U+FF11"}

is_noise(val) ==
  LET v == Strip(val) IN v = ONE \/ v = FW_ONE

\* the columns of tgt_row one noise row n blanks: for each key of TARGETS that
\* n has and flags, the target columns the row has and that are not ""
ClearedBy(n, tgt_row) ==
  {col \in UNION {Range(TARGETS[key]) :
                    key \in {k \in DOMAIN TARGETS : k \in DOMAIN n /\ is_noise(n[k])}} :
     col \in DOMAIN tgt_row /\ tgt_row[col] # Empty}

\* mutant of MaskedCount: every flagged column of the row is counted, blank
\* ones included
MaskedCount_all_flagged(n, tgt_row) ==
  Cardinality({col \in UNION {Range(TARGETS[key]) :
                    key \in {k \in DOMAIN TARGETS : k \in DOMAIN n /\ is_noise(n[k])}} :
                 col \in DOMAIN tgt_row})

\* what one noise row adds to masked_cells
MaskedCount(n, tgt_row) == Cardinality(ClearedBy(n, tgt_row))

\* ------------------------------------------------------------ state machine
VARIABLES
  fileA, fileB,   \* combine.py: the two CSV files on disk, [header, data]
  outAB, outBA,   \* combine.py: what merge_csv wrote with A (resp. B) as the
                  \* priority file; <<>> while that run has not happened
  merged0,        \* noise_mask.py: merged_rows as apply_noise_mask received it
  merged_rows,    \* noise_mask.py: merged_rows, blanked in place
  n,              \* noise_mask.py: the noise row of the last iteration, <<n>>
  noise_read,     \* noise_mask.py: iterations of the loop over noise_rows
  masked_cells,   \* noise_mask.py: the running count
  returned,       \* noise_mask.py: <<count>> once apply_noise_mask returned
  pc,             \* angio.py main: "reading", "merging" or "written"
  rows_tmp,       \* angio.py main: the candidate rows, one per file read
  merged,         \* angio.py main: identifier -> merged row
  folded,         \* angio.py main: rows of rows_tmp the merge loop has taken
  rows_out,       \* angio.py main: the rows written
  files,          \* angio.py main: the report files read, [name, rows] each
  failed,         \* angio.py main: names of the files process_file raised on
  report,         \* process_file: the report [name, rows] it is called on
  angio_done,     \* angio.py process_file: <<its locals>> once it returned
  oct_done,       \* oct.py process_file: <<its locals>> once it returned
  scores_by_valid_id,  \* age_data.py: canonical identifier -> its scores
  invalid_id_files,    \* age_data.py: rejected identifier -> file names
  stripped_id_files,   \* age_data.py: suffixed identifier -> file names
  age_file,       \* age_data.py: <<[name, header]>> of the file being read
  age_row,        \* age_data.py: <<[raw_id, score]>> of the last data row, <<>> if skipped
  age_rows,       \* age_data.py: data rows read so far
  age_pc,         \* age_data.py: "reading", "aborted" (an exception left the
                  \* script) or "written"
  age_failed,     \* age_data.py: names of the files whose read raised
  age_out,        \* age_data.py: the rows of OUTPUT_CSV, <<id, twice the score>>
  err_in,         \* angio_error.py: the input CSV, [header, data]
  err_out         \* angio_error.py: <<what main wrote>> once it returned

mergeVars == <<fileA, fileB, outAB, outBA>>
noiseVars == <<merged0, merged_rows, n, noise_read, masked_cells, returned>>
aggVars == <<pc, rows_tmp, merged, folded, rows_out, files, failed>>
fileVars == <<report, angio_done, oct_done>>
ageVars ==
  <<scores_by_valid_id, invalid_id_files, stripped_id_files, age_file, age_row, age_rows,
    age_pc, age_failed, age_out>>
errVars == <<err_in, err_out>>
vars == <<mergeVars, noiseVars, aggVars, fileVars, ageVars, errVars>>

\* the components a specification does not run
IdleMerge ==
  /\ fileA = [header |-> <<>>, data |-> <<>>]
  /\ fileB = [header |-> <<>>, data |-> <<>>]
  /\ outAB = <<>>
  /\ outBA = <<>>

IdleErr ==
  /\ err_in = [header |-> <<>>, data |-> <<>>]
  /\ err_out = <<>>

IdleAge ==
  /\ scores_by_valid_id = <<>>
  /\ invalid_id_files = <<>>
  /\ stripped_id_files = <<>>
  /\ age_file = <<>>
  /\ age_row = <<>>
  /\ age_rows = 0
  /\ age_pc = "idle"
  /\ age_failed = {}
  /\ age_out = <<>>

IdleFile ==
  /\ report = <<>>
  /\ angio_done = <<>>
  /\ oct_done = <<>>

IdleAgg ==
  /\ pc = "idle"
  /\ rows_tmp = <<>>
  /\ merged = <<>>
  /\ folded = 0
  /\ rows_out = <<>>
  /\ files = <<>>
  /\ failed = {}

IdleNoise ==
  /\ merged0 = <<>>
  /\ merged_rows = <<>>
  /\ n = <<>>
  /\ noise_read = 0
  /\ masked_cells = 0
  /\ returned = <<>>

\* Cell texts of the merger's input files.
TXT_5_0 == <<"5", ".", "0">>
TXT_3_0_PAD == <<" ", "3", ".", "0">>
TXT_2_0 == <<"2", ".", "0">>
TXT_NA == <<"n", "/", "a">>
EG0001_PAD == <<" ", "E", "G", "0", "0", "0", "1">>
BLANK_NAME == <<" ">>

ColVals(c) ==
  IF c = ID_COL THEN {EG0001, EG0001_PAD, EG0002}
  ELSE IF c = R_CENTER THEN {Empty, TXT_5_0, TXT_3_0_PAD, TXT_NA}
  ELSE {TXT_2_0}

\* the data rows a file with this header may hold: one cell per header cell,
\* or a row cut short after its identifier
RowsFor(h) ==
  {r \in [1..Len(h) -> UNION {ColVals(h[i]) : i \in 1..Len(h)}] :
      \A i \in 1..Len(h) : r[i] \in ColVals(h[i])}
  \cup {<<EG0002>>}

MergeHeaders == { <<ID_COL, R_CENTER>>, <<ID_COL, R_CENTER, L_CENTER>> }

FilesWith(k) ==
  UNION { {[header |-> h, data |-> d] : d \in [1..k -> RowsFor(h)]} : h \in MergeHeaders }

\* headers of at most MaxCols cells, blank and repeated names included
ColNames == {ID_COL, R_CENTER, L_CENTER, BLANK_NAME}
UnionHeaders == UNION { [1..len -> ColNames] : len \in 0..MaxCols }

\* identifier-only files: identifiers repeated, padded and blank
IdVals == {EG0001, EG0001_PAD, EG0002, Empty}
IdFiles ==
  UNION { {[header |-> <<ID_COL>>, data |-> [i \in 1..len |-> <<f[i]>>]] : f \in [1..len -> IdVals]}
          : len \in 0..MaxIdRows }

InitMerge ==
  /\ \E ka \in 0..MaxRows : \E kb \in 0..(MaxRows - ka) :
        /\ fileA \in FilesWith(ka)
        /\ fileB \in FilesWith(kb)
  /\ outAB = <<>>
  /\ outBA = <<>>
  /\ IdleNoise
  /\ IdleAgg
  /\ IdleFile
  /\ IdleAge
  /\ IdleErr

InitUnion ==
  /\ fileA \in {[header |-> h, data |-> <<>>] : h \in UnionHeaders}
  /\ fileB \in {[header |-> h, data |-> <<>>] : h \in UnionHeaders}
  /\ outAB = <<>>
  /\ outBA = <<>>
  /\ IdleNoise
  /\ IdleAgg
  /\ IdleFile
  /\ IdleAge
  /\ IdleErr

InitIds ==
  /\ fileA \in IdFiles
  /\ fileB \in IdFiles
  /\ outAB = <<>>
  /\ outBA = <<>>
  /\ IdleNoise
  /\ IdleAgg
  /\ IdleFile
  /\ IdleAge
  /\ IdleErr

\* merge_csv(new_path = A, old_path = B, out_path)
MergeAB ==
  /\ outAB = <<>>
  /\ outAB' = <<merge_csv(fileA, fileB)>>
  /\ UNCHANGED <<fileA, fileB, outBA, noiseVars, aggVars, fileVars, ageVars, errVars>>

\* merge_csv(new_path = B, old_path = A, out_path)
MergeBA ==
  /\ outBA = <<>>
  /\ outBA' = <<merge_csv(fileB, fileA)>>
  /\ UNCHANGED <<fileA, fileB, outAB, noiseVars, aggVars, fileVars, ageVars, errVars>>

NextMerge == MergeAB \/ MergeBA

SpecMerge == InitMerge /\ [][NextMerge]_vars
SpecUnion == InitUnion /\ [][NextMerge]_vars
SpecIds == InitIds /\ [][NextMerge]_vars

\* Cell texts and identifiers of the noise mask's inputs.
TXT_295 == <<"2", "9", "5">>
ZERO == <<"0">>
ONE_PAD == <<" ", "1", " ">>
TXT_12 == <<"1", "2">>
TXT_19 == <<"1", "9">>
EG0009 == <<"E", "G", "0", "0", "0", "9">>

\* "Inner Temporal" -> "Inner_Temporal": sec.replace(" ", "_")
ReplaceSpace(s) == [i \in 1..Len(s) |-> IF s[i] = " " THEN "_" ELSE s[i]]

SECTORS ==
  << CENTER,
     INNER \o <<" ">> \o Q_TEMPORAL, INNER \o <<" ">> \o Q_SUPERIOR,
     INNER \o <<" ">> \o Q_NASAL, INNER \o <<" ">> \o Q_INFERIOR,
     OUTER \o <<" ">> \o Q_TEMPORAL, OUTER \o <<" ">> \o Q_SUPERIOR,
     OUTER \o <<" ">> \o Q_NASAL, OUTER \o <<" ">> \o Q_INFERIOR >>

\* OUTPUT_COLUMNS of a per-file pipeline: ID, the nine sectors of the right
\* eye, the nine of the left; sep is "-" in oct.py and "_" in angio.py
OutputColumns(sep) ==
  <<ID_COL>> \o [i \in 1..Len(SECTORS) |-> EYE_R \o sep \o ReplaceSpace(SECTORS[i])]
             \o [i \in 1..Len(SECTORS) |-> EYE_L \o sep \o ReplaceSpace(SECTORS[i])]

OCT_OUTPUT_COLUMNS == OutputColumns(<<"-">>)
ANGIO_OUTPUT_COLUMNS == OutputColumns(<<"_">>)

\* one row of the table to mask: a thickness in every sector but the blank ones
TargetRow(header, id_, blank) ==
  [c \in Range(header) |-> IF c = ID_COL THEN id_
                           ELSE IF c \in blank THEN Empty ELSE TXT_295]

SomeBlank ==
  { QuadKey(EYE_L, CENTER), InnerCol(EYE_L, Q_SUPERIOR), OuterCol(EYE_R, Q_NASAL) }

\* the tables apply_noise_mask is given: thickness tables (oct.py's column
\* names) with two identifiers, with blank cells and a padded identifier, with
\* one identifier on two rows, with a row without identifier; and a density
\* table (angio.py's column names)
TargetTables ==
  { << TargetRow(OCT_OUTPUT_COLUMNS, EG0001, {}),
       TargetRow(OCT_OUTPUT_COLUMNS, EG0002, {}) >>,
    << TargetRow(OCT_OUTPUT_COLUMNS, EG0001_PAD, SomeBlank) >>,
    << TargetRow(OCT_OUTPUT_COLUMNS, EG0001, {}),
       TargetRow(OCT_OUTPUT_COLUMNS, EG0001, SomeBlank) >>,
    << TargetRow(OCT_OUTPUT_COLUMNS, Empty, {}),
       TargetRow(OCT_OUTPUT_COLUMNS, EG0001, {}) >>,
    << TargetRow(ANGIO_OUTPUT_COLUMNS, EG0001, {}) >> }

NoiseIds == {EG0001_PAD, EG0009, Empty}

\* the rows of the noise table: "0" everywhere but one quadrant, which holds
\* the flag (every quadrant) or another code (L-Superior); the flag in
\* every quadrant; and a row of a table that has the L-Superior column only
NoiseRowsIn ==
  UNION {
    {[c \in Range(NOISE_COLUMNS) |-> IF c = ID_COL THEN id_
                                     ELSE IF c = q THEN ONE ELSE ZERO]
        : q \in DOMAIN TARGETS}
    \cup
    {[c \in Range(NOISE_COLUMNS) |-> IF c = ID_COL THEN id_
                                     ELSE IF c = q THEN v ELSE ZERO]
        : q \in {QuadKey(EYE_L, Q_SUPERIOR)},
          v \in {FW_ONE, ONE_PAD, ZERO, Empty, TXT_12, TXT_19}}
    \cup
    {[c \in Range(NOISE_COLUMNS) |-> IF c = ID_COL THEN id_ ELSE ONE]}
    \cup
    {[c \in {ID_COL, QuadKey(EYE_L, Q_SUPERIOR)} |-> IF c = ID_COL THEN id_ ELSE ONE]}
    : id_ \in NoiseIds }

\* ----------------------------------------------------------------- angio.py
\* None of an Optional value; a present value v is <<v>>
None == <<>>

\* A report is its rows as csv.reader gives them: a row is a sequence of
\* cells (the empty sequence for a blank line), a cell is a text.
StartsWith(s, p) == Len(s) >= Len(p) /\ SubSeq(s, 1, Len(p)) = p

\* ",".join(r)
RECURSIVE Join(_)
Join(r) ==
  IF r = <<>> THEN <<>>
  ELSE IF Len(r) = 1 THEN r[1]
  ELSE r[1] \o <<",">> \o Join(Tail(r))

\* str.upper() on the letters the readers test
UpperChar(c) == CASE c = "r" -> "R" [] c = "l" -> "L" [] OTHER -> c

Upper(s) == [i \in 1..Len(s) |-> UpperChar(s[i])]

\* "not any(cell.strip() for cell in row)"
AllBlank(row) == \A i \in 1..Len(row) : Strip(row[i]) = <<>>

\* the value of a decimal digit, as int() and float() read it
DigitVal(c) ==
  CASE c = "0" -> 0 [] c = "1" -> 1 [] c = "2" -> 2 [] c = "3" -> 3
    [] c = "4" -> 4 [] c = "5" -> 5 [] c = "6" -> 6 [] c = "7" -> 7
    [] c = "8" -> 8 [] c = "9" -> 9 [] c = "U+FF11" -> 1

\* int() of a run of digits
RECURSIVE DigitsVal(_)
DigitsVal(ds) ==
  IF ds = <<>> THEN 0
  ELSE 10 * DigitsVal(SubSeq(ds, 1, Len(ds) - 1)) + DigitVal(ds[Len(ds)])

\* float(t) of a text float() accepts, in hundredths: defined on plain
\* decimals of at most two fraction digits, [sign] digits [. [digits]]
Hundredths(t) ==
  LET p0   == IF t[1] \in {"+", "-"} THEN 2 ELSE 1
      dots == {i \in 1..Len(t) : t[i] = "."}
      a    == IF dots = {} THEN Len(t) + 1 ELSE CHOOSE i \in dots : TRUE
      frac == SubSeq(t, a + 1, Len(t))
      f    == CASE Len(frac) = 0 -> 0
                [] Len(frac) = 1 -> 10 * DigitVal(frac[1])
                [] Len(frac) = 2 -> DigitsVal(frac)
      v    == 100 * DigitsVal(SubSeq(t, p0, a - 1)) + f
  IN  IF t[1] = "-" THEN 0 - v ELSE v

ETDRS_DENSITY_TAG ==
  << "<", "E", "T", "D", "R", "S", " ", "9", " ", "S", "e", "c", "t", "o", "r",
     " ", "D", "e", "n", "s", "i", "t", "y", ">" >>

EYE == <<"E", "y", "e">>

EYE_HEADER_PREFIX ==
  << "E", "y", "e", ",", "S", "/", "N", ",", "V", "e", "r", "s", "i", "o", "n",
     "(", "F", "/", "S", ")", ",", "D", "a", "t", "e", ",", "S", "S", "I", ",",
     "S", "L", "O", ",", "F", "o", "c", "u", "s", "[", "D", "]", ",", "R", "e",
     "f", "[", "D", "]", ",", "A", "x", "i", "a", "l", "[", "m", "m", "]", ",",
     "S", "Q", "I" >>

\* mutant of safe_float: a zero is no value
safe_float_zero_missing(s) ==
  LET t == SelectSeq(Strip(s), LAMBDA c : c # ",")
  IN  IF t = <<>> THEN None
      ELSE IF ParsesAsFloat(t) /\ Hundredths(t) # 0 THEN <<Hundredths(t)>> ELSE None

\* safe_float: None for a text that is blank or that float() refuses, the
\* commas taken out first
safe_float(s) ==
  LET t == SelectSeq(Strip(s), LAMBDA c : c # ",")
  IN  IF t = <<>> THEN None
      ELSE IF ParsesAsFloat(t) THEN <<Hundredths(t)>> ELSE None

\* detect_eye_side, first loop: the index of the Eye header row, 0 if none
EyeIndex(rows) ==
  LET at == {i \in 1..Len(rows) :
               /\ rows[i] # <<>>
               /\ \/ Strip(rows[i][1]) = EYE
                  \/ StartsWith(Join(rows[i]), EYE_HEADER_PREFIX)}
  IN  IF at = {} THEN 0 ELSE CHOOSE i \in at : \A k \in at : i <= k

\* mutant of ScanSide: a row that starts another section does not end the
\* search
RECURSIVE ScanSide_past_boundary(_, _)
ScanSide_past_boundary(rows, j) ==
  IF j > Len(rows) THEN None
  ELSE IF rows[j] = <<>> \/ AllBlank(rows[j]) THEN ScanSide_past_boundary(rows, j + 1)
  ELSE LET first == Upper(Strip(rows[j][1]))
       IN  IF StartsWith(first, <<"R">>) THEN EYE_R
           ELSE IF StartsWith(first, <<"L">>) THEN EYE_L
           ELSE ScanSide_past_boundary(rows, j + 1)

\* mutant of ScanSide: a fully blank row ends the search
RECURSIVE ScanSide_halts_at_blank(_, _)
ScanSide_halts_at_blank(rows, j) ==
  IF j > Len(rows) THEN None
  ELSE IF rows[j] = <<>> \/ AllBlank(rows[j]) THEN None
  ELSE LET first == Upper(Strip(rows[j][1]))
       IN  IF StartsWith(first, <<"R">>) THEN EYE_R
           ELSE IF StartsWith(first, <<"L">>) THEN EYE_L
           ELSE IF StartsWith(first, <<"<">>) THEN None
           ELSE ScanSide_halts_at_blank(rows, j + 1)

\* detect_eye_side, second loop, from row j on
RECURSIVE ScanSide(_, _)
ScanSide(rows, j) ==
  IF j > Len(rows) THEN None
  ELSE IF rows[j] = <<>> \/ AllBlank(rows[j]) THEN ScanSide(rows, j + 1)
  ELSE LET first == Upper(Strip(rows[j][1]))
       IN  IF StartsWith(first, <<"R">>) THEN EYE_R
           ELSE IF StartsWith(first, <<"L">>) THEN EYE_L
           ELSE IF StartsWith(first, <<"<">>) THEN None
           ELSE ScanSide(rows, j + 1)

\* mutant of detect_eye_side: the first R or L row, under a header or not
detect_eye_side_any_row(rows) == ScanSide(rows, 1)

\* detect_eye_side: "R", "L" or None
detect_eye_side(rows) ==
  IF EyeIndex(rows) = 0 THEN None ELSE ScanSide(rows, EyeIndex(rows) + 1)

\* find_etdrs_density_index: the index of the first tag row, 0 if none
find_etdrs_density_index(rows) ==
  LET at == {i \in 1..Len(rows) :
               rows[i] # <<>> /\ Strip(rows[i][1]) = ETDRS_DENSITY_TAG}
  IN  IF at = {} THEN 0 ELSE CHOOSE i \in at : \A k \in at : i <= k

\* mutant of ScanVd: a row named by the beginning of a sector name (Inner,
\* Outer) gives its value to that sector
RECURSIVE ScanVd_prefix(_, _, _)
ScanVd_prefix(rows, i, result) ==
  IF i > Len(rows) THEN result
  ELSE IF rows[i] = <<>> \/ AllBlank(rows[i]) THEN ScanVd_prefix(rows, i + 1, result)
  ELSE IF StartsWith(Strip(rows[i][1]), <<"<">>) THEN result
  ELSE LET sector_name == Strip(rows[i][1])
       IN  IF Len(rows[i]) > 1
           THEN ScanVd_prefix(rows, i + 1,
                  [sec \in DOMAIN result |->
                     IF StartsWith(sec, sector_name)
                     THEN safe_float(rows[i][2]) ELSE result[sec]])
           ELSE ScanVd_prefix(rows, i + 1, result)

\* extract_etdrs_vd, the loop from row i on, result being the values so far
RECURSIVE ScanVd(_, _, _)
ScanVd(rows, i, result) ==
  IF i > Len(rows) THEN result
  ELSE IF rows[i] = <<>> \/ AllBlank(rows[i]) THEN ScanVd(rows, i + 1, result)
  ELSE IF StartsWith(Strip(rows[i][1]), <<"<">>) THEN result
  ELSE LET sector_name == Strip(rows[i][1])
       IN  IF sector_name \in DOMAIN result /\ Len(rows[i]) > 1
           THEN ScanVd(rows, i + 1,
                       [result EXCEPT ![sector_name] = safe_float(rows[i][2])])
           ELSE ScanVd(rows, i + 1, result)

\* extract_etdrs_vd: sector -> Optional value
extract_etdrs_vd(rows) ==
  LET result == [sec \in Range(SECTORS) |-> None]
      idx    == find_etdrs_density_index(rows)
  IN  IF idx = 0 THEN result ELSE ScanVd(rows, idx + 1, result)

\* mutant of get_id_from_filename: the last EG + four digits of the name
get_id_last_match(name) ==
  LET at == {i \in 1..(Len(name) - 5) :
               /\ name[i] = "E" /\ name[i + 1] = "G"
               /\ \A k \in 2..5 : IsDigit(name[i + k])}
  IN  IF at # {}
      THEN LET i == CHOOSE i \in at : \A k \in at : i >= k
           IN  SubSeq(name, i, i + 5)
      ELSE SubSeq(name, 1, IF Len(name) < 6 THEN Len(name) ELSE 6)

\* get_id_from_filename: the first EG + four digits of the name, else its
\* first six characters
get_id_from_filename(name) ==
  LET at == {i \in 1..(Len(name) - 5) :
               /\ name[i] = "E" /\ name[i + 1] = "G"
               /\ \A k \in 2..5 : IsDigit(name[i + k])}
  IN  IF at # {}
      THEN LET i == CHOOSE i \in at : \A k \in at : i <= k
           IN  SubSeq(name, i, i + 5)
      ELSE SubSeq(name, 1, IF Len(name) < 6 THEN Len(name) ELSE 6)

\* process_file: the candidate row of the report f = [name, rows], the
\* values (in hundredths) in the columns of the eye side detected
process_file(f) ==
  LET eye_side == detect_eye_side(f.rows)
      vd_dict  == extract_etdrs_vd(f.rows)
  IN  [c \in Range(ANGIO_OUTPUT_COLUMNS) |->
         IF c = ID_COL THEN get_id_from_filename(f.name)
         ELSE IF \E sec \in Range(SECTORS) :
                   /\ eye_side \in {EYE_R, EYE_L}
                   /\ c = eye_side \o <<"_">> \o ReplaceSpace(sec)
              THEN vd_dict[CHOOSE sec \in Range(SECTORS) :
                             c = eye_side \o <<"_">> \o ReplaceSpace(sec)]
              ELSE None]

\* ------------------------------------------------------------------- oct.py
ETDRS_TAG == <<"<", "E", "T", "D", "R", "S", ">">>

SIZE == <<"S", "i", "z", "e">>

EndsWith(s, p) == Len(s) >= Len(p) /\ SubSeq(s, Len(s) - Len(p) + 1, Len(s)) = p

\* detect_eye_presence, first loop: the index of the Eye header row, 0 if none
OctEyeIndex(rows) ==
  LET at == {i \in 1..Len(rows) :
               \/ Len(rows[i]) > 0 /\ Strip(rows[i][1]) = EYE
               \/ StartsWith(Join(rows[i]), EYE_HEADER_PREFIX)}
  IN  IF at = {} THEN 0 ELSE CHOOSE i \in at : \A k \in at : i <= k

\* mutant of ScanPresence: a row that is neither an R nor an L row is passed
\* over
RECURSIVE ScanPresence_skips_other(_, _, _)
ScanPresence_skips_other(rows, j, has) ==
  IF j > Len(rows) THEN has
  ELSE IF rows[j] = <<>> \/ AllBlank(rows[j]) THEN has
  ELSE IF StartsWith(Strip(rows[j][1]), <<"<">>) THEN has
  ELSE LET first == Upper(Strip(rows[j][1]))
       IN  IF StartsWith(first, <<"R">>)
           THEN ScanPresence_skips_other(rows, j + 1, <<TRUE, has[2]>>)
           ELSE IF StartsWith(first, <<"L">>)
           THEN ScanPresence_skips_other(rows, j + 1, <<has[1], TRUE>>)
           ELSE ScanPresence_skips_other(rows, j + 1, has)

\* detect_eye_presence, the while loop from row j on, has = <<has_r, has_l>>
RECURSIVE ScanPresence(_, _, _)
ScanPresence(rows, j, has) ==
  IF j > Len(rows) THEN has
  ELSE IF rows[j] = <<>> \/ AllBlank(rows[j]) THEN has
  ELSE IF StartsWith(Strip(rows[j][1]), <<"<">>) THEN has
  ELSE LET first == Upper(Strip(rows[j][1]))
       IN  IF StartsWith(first, <<"R">>) THEN ScanPresence(rows, j + 1, <<TRUE, has[2]>>)
           ELSE IF StartsWith(first, <<"L">>) THEN ScanPresence(rows, j + 1, <<has[1], TRUE>>)
           ELSE has

\* detect_eye_presence: <<has_r, has_l>>
detect_eye_presence(rows) ==
  IF OctEyeIndex(rows) = 0 THEN <<FALSE, FALSE>>
  ELSE ScanPresence(rows, OctEyeIndex(rows) + 1, <<FALSE, FALSE>>)

\* next((i for i, h in enumerate(header_row) if h.strip().endswith(e)), None)
\* followed by "or -1": the 0-based index of the first such cell; -1 when
\* there is none and when it is the cell of index 0
ColumnOf(header_row, e) ==
  LET at == {i \in 1..Len(header_row) : EndsWith(Strip(header_row[i]), e)}
  IN  IF at = {} THEN -1
      ELSE LET i == CHOOSE i \in at : \A k \in at : i <= k
           IN  IF i - 1 = 0 THEN -1 ELSE i - 1

\* find_etdrs_table: the index of the first tag row (0 if none) and the
\* 0-based columns <<r_col, l_col>> read from the row after it
find_etdrs_table(rows) ==
  LET at == {i \in 1..Len(rows) : Len(rows[i]) > 0 /\ Strip(rows[i][1]) = ETDRS_TAG}
      etdrs_idx == IF at = {} THEN 0 ELSE CHOOSE i \in at : \A k \in at : i <= k
      header_row == IF etdrs_idx + 1 <= Len(rows) THEN rows[etdrs_idx + 1] ELSE <<>>
  IN  [etdrs_idx |-> etdrs_idx,
       rl_cols |-> <<ColumnOf(header_row, EYE_R), ColumnOf(header_row, EYE_L)>>]

\* row[k] of Python for a 0-based k < len(row), a negative k counted from the end
PyCell(row, k) == IF k < 0 THEN row[Len(row) + 1 + k] ELSE row[k + 1]

\* mutant of ScanEtdrs: a row of blank cells ends the section as an empty
\* line does
RECURSIVE ScanEtdrs_halts_at_blank(_, _, _, _)
ScanEtdrs_halts_at_blank(rows, i, rl_cols, result) ==
  IF i > Len(rows) THEN result
  ELSE IF AllBlank(rows[i]) \/ StartsWith(Strip(rows[i][1]), <<"<">>) THEN result
  ELSE IF Strip(rows[i][1]) = SIZE
       THEN ScanEtdrs_halts_at_blank(rows, i + 1, rl_cols, result)
  ELSE LET row == rows[i]
           sector_name == Strip(row[1])
           r_val == IF rl_cols[1] < Len(row) THEN safe_float(PyCell(row, rl_cols[1])) ELSE None
           l_val == IF rl_cols[2] < Len(row) THEN safe_float(PyCell(row, rl_cols[2])) ELSE None
       IN  IF sector_name \in DOMAIN result
           THEN ScanEtdrs_halts_at_blank(rows, i + 1, rl_cols,
                          [result EXCEPT ![sector_name] = <<r_val, l_val>>])
           ELSE ScanEtdrs_halts_at_blank(rows, i + 1, rl_cols, result)

\* extract_etdrs, the while loop from row i on
RECURSIVE ScanEtdrs(_, _, _, _)
ScanEtdrs(rows, i, rl_cols, result) ==
  IF i > Len(rows) THEN result
  ELSE IF rows[i] = <<>> \/ StartsWith(Strip(rows[i][1]), <<"<">>) THEN result
  ELSE IF Strip(rows[i][1]) = SIZE THEN ScanEtdrs(rows, i + 1, rl_cols, result)
  ELSE LET row == rows[i]
           sector_name == Strip(row[1])
           r_val == IF rl_cols[1] < Len(row) THEN safe_float(PyCell(row, rl_cols[1])) ELSE None
           l_val == IF rl_cols[2] < Len(row) THEN safe_float(PyCell(row, rl_cols[2])) ELSE None
       IN  IF sector_name \in DOMAIN result
           THEN ScanEtdrs(rows, i + 1, rl_cols,
                          [result EXCEPT ![sector_name] = <<r_val, l_val>>])
           ELSE ScanEtdrs(rows, i + 1, rl_cols, result)

\* extract_etdrs: sector -> <<r_val, l_val>>
extract_etdrs(rows) ==
  LET t      == find_etdrs_table(rows)
      result == [sec \in Range(SECTORS) |-> <<None, None>>]
  IN  IF t.etdrs_idx = 0 THEN result
      ELSE ScanEtdrs(rows, t.etdrs_idx + 2, t.rl_cols, result)

\* process_file of oct.py: the candidate row of the report f = [name, rows]
oct_process_file(f) ==
  LET has   == detect_eye_presence(f.rows)
      etdrs == extract_etdrs(f.rows)
  IN  [c \in Range(OCT_OUTPUT_COLUMNS) |->
         IF c = ID_COL THEN get_id_from_filename(f.name)
         ELSE LET sec == CHOOSE sec \in Range(SECTORS) :
                           \E e \in {EYE_R, EYE_L} : c = e \o <<"-">> \o ReplaceSpace(sec)
              IN  IF c[1] = "R"
                  THEN IF has[1] THEN etdrs[sec][1] ELSE None
                  ELSE IF has[2] THEN etdrs[sec][2] ELSE None]

\* -------------------------------------------------------------- age_data.py
\* the inclusion threshold of four-digit identifiers
THRESHOLD == 3171

\* NaN of a score; a finite score v, in hundredths, is <<v>>
NAN == <<>>

\* to_float_safe: the score of a cell, NaN for a text float() refuses
to_float_safe(s) ==
  IF ParsesAsFloat(Strip(s)) THEN <<Hundredths(Strip(s))>> ELSE NAN

\* re.fullmatch(r"\d{4}", raw_id)
FourDigits(raw_id) == Len(raw_id) = 4 /\ \A k \in 1..4 : IsDigit(raw_id[k])

\* re.fullmatch(r"EG\d{4}", raw_id)
EgFourDigits(raw_id) ==
  /\ Len(raw_id) = 6
  /\ raw_id[1] = "E" /\ raw_id[2] = "G"
  /\ \A k \in 3..6 : IsDigit(raw_id[k])

\* mutant of EgSuffixed: any run of digits is a suffix
EgSuffixed_any_digits(raw_id) ==
  /\ Len(raw_id) >= 8
  /\ EgFourDigits(SubSeq(raw_id, 1, 6))
  /\ raw_id[7] = "-"
  /\ \A k \in 8..Len(raw_id) : IsDigit(raw_id[k])

\* re.fullmatch(r"EG\d{4}-(?:[1-9]\d*)", raw_id)
EgSuffixed(raw_id) ==
  /\ Len(raw_id) >= 8
  /\ EgFourDigits(SubSeq(raw_id, 1, 6))
  /\ raw_id[7] = "-"
  /\ raw_id[8] \in {"1", "2", "3", "4", "5", "6", "7", "8", "9"}
  /\ \A k \in 9..Len(raw_id) : IsDigit(raw_id[k])

\* raw_id.split("-")[0]
BeforeDash(raw_id) ==
  LET at == {i \in 1..Len(raw_id) : raw_id[i] = "-"}
  IN  IF at = {} THEN raw_id
      ELSE SubSeq(raw_id, 1, (CHOOSE i \in at : \A k \in at : i <= k) - 1)

\* mutant of WithinThreshold: the threshold itself is excluded
WithinThreshold_strict(raw_id) == DigitsVal(raw_id) < THRESHOLD

\* "num = int(raw_id); num <= 3171"
WithinThreshold(raw_id) == DigitsVal(raw_id) <= THRESHOLD

\* mutant of canonical_id: an identifier of no accepted shape is its own key
canonical_id_accepts_other(raw_id) ==
  IF FourDigits(raw_id)
  THEN IF WithinThreshold(raw_id) THEN <<<<"E", "G">> \o raw_id>> ELSE None
  ELSE IF EgSuffixed(raw_id) THEN <<BeforeDash(raw_id)>>
  ELSE <<raw_id>>

\* mutant of canonical_id: a four-digit identifier is its own key
canonical_id_no_prefix(raw_id) ==
  IF FourDigits(raw_id)
  THEN IF WithinThreshold(raw_id) THEN <<raw_id>> ELSE None
  ELSE IF EgSuffixed(raw_id) THEN <<BeforeDash(raw_id)>>
  ELSE IF EgFourDigits(raw_id) THEN <<raw_id>>
  ELSE None

\* the branches 1) to 4) of the row loop: <<canonical_id>> of an identifier
\* that enters the calculation, None of one that is rejected
canonical_id(raw_id) ==
  IF FourDigits(raw_id)
  THEN IF WithinThreshold(raw_id) THEN <<<<"E", "G">> \o raw_id>> ELSE None
  ELSE IF EgSuffixed(raw_id) THEN <<BeforeDash(raw_id)>>
  ELSE IF EgFourDigits(raw_id) THEN <<raw_id>>
  ELSE None

\* defaultdict(list)[k].append(v)
AppendTo(d, k, v) ==
  [x \in DOMAIN d \cup {k} |->
     IF x = k THEN (IF k \in DOMAIN d THEN Append(d[k], v) ELSE <<v>>) ELSE d[x]]

\* defaultdict(set)[k].add(v)
AddTo(d, k, v) ==
  [x \in DOMAIN d \cup {k} |->
     IF x = k THEN (IF k \in DOMAIN d THEN d[k] \cup {v} ELSE {v}) ELSE d[x]]

\* find_col_exact: the 0-based index of the header cell name, None if absent
find_col_exact(header, name) ==
  LET at == {i \in 1..Len(header) : header[i] = name}
  IN  IF at = {} THEN None ELSE <<(CHOOSE i \in at : \A k \in at : i <= k) - 1>>

\* sorted() of a list of finite scores
RECURSIVE SortedVals(_)
SortedVals(vals) ==
  IF vals = <<>> THEN <<>>
  ELSE LET i == CHOOSE i \in 1..Len(vals) : \A k \in 1..Len(vals) : vals[i] <= vals[k]
       IN  <<vals[i]>> \o SortedVals(SubSeq(vals, 1, i - 1) \o SubSeq(vals, i + 1, Len(vals)))

\* pick_score: None under two finite scores, else the mean of the two (of the
\* closest two neighbours, the first such pair), given as their sum <<a + b>>
pick_score(scores) ==
  LET finite == SelectSeq(scores, LAMBDA v : v # NAN)
      vals   == SortedVals([k \in 1..Len(finite) |-> finite[k][1]])
      diff(i) == vals[i + 1] - vals[i]
      best   == CHOOSE i \in 1..(Len(vals) - 1) :
                  /\ \A k \in 1..(Len(vals) - 1) : diff(i) <= diff(k)
                  /\ \A k \in 1..(i - 1) : diff(k) > diff(i)
  IN  IF Len(vals) < 2 THEN None ELSE <<vals[best] + vals[best + 1]>>

\* result_rows: the identifiers that have a score, sorted
result_rows(by_id) ==
  LET ids == Sorted({k \in DOMAIN by_id : pick_score(by_id[k]) # None})
  IN  [i \in 1..Len(ids) |-> <<ids[i], pick_score(by_id[ids[i]])[1]>>]

\* --------------------------------------------------------- angio.py, main
\* the merged row an identifier has before a candidate row is taken
RowBefore(m, id_) ==
  IF id_ \in DOMAIN m THEN m[id_]
  ELSE [col \in Range(ANGIO_OUTPUT_COLUMNS) |-> IF col = ID_COL THEN id_ ELSE None]

\* mutant of FoldRow: a cell that holds a value is not written again
FoldRow_first_wins(m, row) ==
  LET id_  == row[ID_COL]
      base == RowBefore(m, id_)
  IN  [k \in DOMAIN m \cup {id_} |->
         IF k = id_
         THEN [col \in DOMAIN base |->
                 IF col # ID_COL /\ row[col] # None /\ base[col] = None
                 THEN row[col] ELSE base[col]]
         ELSE m[k]]

\* mutant of FoldRow: a missing value of the row is written as well
FoldRow_erases(m, row) ==
  LET id_  == row[ID_COL]
      base == RowBefore(m, id_)
  IN  [k \in DOMAIN m \cup {id_} |->
         IF k = id_
         THEN [col \in DOMAIN base |-> IF col # ID_COL THEN row[col] ELSE base[col]]
         ELSE m[k]]

\* one iteration of "for row in rows_tmp" of main: merged after the row
FoldRow(m, row) ==
  LET id_  == row[ID_COL]
      base == RowBefore(m, id_)
  IN  [k \in DOMAIN m \cup {id_} |->
         IF k = id_
         THEN [col \in DOMAIN base |->
                 IF col # ID_COL /\ row[col] # None THEN row[col] ELSE base[col]]
         ELSE m[k]]

\* mutant of ValuesInOrder: one row for every candidate row
RECURSIVE ValuesInOrder_per_row(_, _, _)
ValuesInOrder_per_row(m, rows, seen) ==
  IF rows = <<>> THEN <<>>
  ELSE <<m[Head(rows)[ID_COL]]>> \o ValuesInOrder_per_row(m, Tail(rows), seen)

\* list(merged.values()): the merged rows in the order their identifiers
\* were first met in rows
RECURSIVE ValuesInOrder(_, _, _)
ValuesInOrder(m, rows, seen) ==
  IF rows = <<>> THEN <<>>
  ELSE LET id_ == Head(rows)[ID_COL]
       IN  IF id_ \in seen THEN ValuesInOrder(m, Tail(rows), seen)
           ELSE <<m[id_]>> \o ValuesInOrder(m, Tail(rows), seen \cup {id_})

InitNoise ==
  /\ merged0 \in TargetTables
  /\ merged_rows = merged0
  /\ n = <<>>
  /\ noise_read = 0
  /\ masked_cells = 0
  /\ returned = <<>>
  /\ IdleMerge
  /\ IdleAgg
  /\ IdleFile
  /\ IdleAge
  /\ IdleErr

\* mutant of NoiseRowStep: the cells are counted, and cleared in a copy of
\* the table
NoiseRowStep_on_copy ==
  /\ returned = <<>>
  /\ noise_read < MaxNoiseRows
  /\ \E row \in NoiseRowsIn :
       LET pid   == Strip(Get(row, ID_COL))
           by_id == noise_index_by_id(merged0)
       IN  /\ n' = <<row>>
           /\ masked_cells' =
                IF pid = Empty \/ pid \notin DOMAIN by_id THEN masked_cells
                ELSE masked_cells + MaskedCount(row, merged_rows[by_id[pid]])
  /\ noise_read' = noise_read + 1
  /\ UNCHANGED <<merged0, merged_rows, returned, mergeVars, aggVars, fileVars, ageVars,
                 errVars>>

\* one iteration of "for n in noise_rows" of apply_noise_mask
NoiseRowStep ==
  /\ returned = <<>>
  /\ noise_read < MaxNoiseRows
  /\ \E row \in NoiseRowsIn :
       LET pid   == Strip(Get(row, ID_COL))
           by_id == noise_index_by_id(merged0)
       IN  /\ n' = <<row>>
           /\ IF pid = Empty \/ pid \notin DOMAIN by_id
              THEN UNCHANGED <<merged_rows, masked_cells>>
              ELSE LET tgt_row == merged_rows[by_id[pid]]
                       cleared == ClearedBy(row, tgt_row)
                   IN  /\ merged_rows' =
                            [merged_rows EXCEPT ![by_id[pid]] =
                               [c \in DOMAIN tgt_row |->
                                  IF c \in cleared THEN Empty ELSE tgt_row[c]]]
                       /\ masked_cells' = masked_cells + MaskedCount(row, tgt_row)
  /\ noise_read' = noise_read + 1
  /\ UNCHANGED <<merged0, returned, mergeVars, aggVars, fileVars, ageVars, errVars>>

\* "return masked_cells" once noise_rows is exhausted
NoiseReturn ==
  /\ returned = <<>>
  /\ returned' = <<masked_cells>>
  /\ UNCHANGED <<merged0, merged_rows, n, noise_read, masked_cells, mergeVars, aggVars, fileVars, ageVars,
                 errVars>>

NextNoise == NoiseRowStep \/ NoiseReturn

SpecNoise == InitNoise /\ [][NextNoise]_vars

\* the report files of a cohort directory: three names of one identifier
\* and one name that holds no identifier code
ReportNames ==
  { EG0001 \o <<"_", "1", ".", "c", "s", "v">>,
    EG0001 \o <<"_", "2", ".", "c", "s", "v">>,
    EG0001 \o <<"_", "3", ".", "c", "s", "v">>,
    <<"E", "G", "0", "0", "1", "_", "1", ".", "c", "s", "v">> }

\* the Eye section of a report: of the right eye, of the left eye, or none
EyeSections ==
  { <<<<EYE, <<"S", "/", "N">>>>, <<EYE_R, <<"6", "1", "1">>>>>>,
    <<<<EYE, <<"S", "/", "N">>>>, <<EYE_L, <<"6", "1", "1">>>>>>,
    <<>> }

TXT_0_00 == <<"0", ".", "0", "0">>
TXT_10_81 == <<"1", "0", ".", "8", "1">>
TXT_7_99 == <<"7", ".", "9", "9">>
TXT_25_17 == <<"2", "5", ".", "1", "7">>
WHOLE == <<"W", "h", "o", "l", "e">>

\* the density section of a report: none, a zero Center, or a summary row
\* and two sectors
DensitySections ==
  { <<>>,
    <<<<ETDRS_DENSITY_TAG>>, <<CENTER, TXT_0_00, TXT_0_00>>>>,
    <<<<ETDRS_DENSITY_TAG>>, <<WHOLE, TXT_25_17, TXT_25_17>>,
      <<CENTER, TXT_10_81, TXT_25_17>>,
      <<INNER \o <<" ">> \o Q_TEMPORAL, TXT_7_99, TXT_25_17>>>> }

AngioReports == {e \o d : e \in EyeSections, d \in DensitySections}

\* files = sorted(input_dir.glob("*.csv")): name is a next file after fs
NextInOrder(fs, name) ==
  IF fs = <<>> THEN TRUE ELSE StrLess(fs[Len(fs)].name, name)

\* the same, after the files read and the files that could not be read
NextFileName(name) ==
  /\ NextInOrder(files, name)
  /\ \A g \in failed : StrLess(g, name)

InitAgg ==
  /\ pc = "reading"
  /\ rows_tmp = <<>>
  /\ merged = <<>>
  /\ folded = 0
  /\ rows_out = <<>>
  /\ files = <<>>
  /\ failed = {}
  /\ IdleMerge
  /\ IdleNoise
  /\ IdleFile
  /\ IdleAge
  /\ IdleErr

\* "for p in files: rows_tmp.append(process_file(p))", one file
ReadFile ==
  /\ pc = "reading"
  /\ Len(files) + Cardinality(failed) < MaxFiles
  /\ \E name \in ReportNames, rows \in AngioReports :
       /\ NextFileName(name)
       /\ files' = Append(files, [name |-> name, rows |-> rows])
       /\ rows_tmp' = Append(rows_tmp, process_file([name |-> name, rows |-> rows]))
  /\ UNCHANGED <<pc, merged, folded, rows_out, failed, mergeVars, noiseVars, fileVars,
                 ageVars, errVars>>

\* the same iteration when process_file raises (the file cannot be opened,
\* csv.Error): "except Exception as e: print(...)", and the loop goes on
ReadFileFails ==
  /\ pc = "reading"
  /\ Len(files) + Cardinality(failed) < MaxFiles
  /\ \E name \in ReportNames :
       /\ NextFileName(name)
       /\ failed' = failed \cup {name}
  /\ UNCHANGED <<pc, rows_tmp, merged, folded, rows_out, files, mergeVars, noiseVars,
                 fileVars, ageVars, errVars>>

\* the files are exhausted ("if not files: return" passed): "merged = {}"
StartMerge ==
  /\ pc = "reading"
  /\ Len(files) + Cardinality(failed) >= 1
  /\ pc' = "merging"
  /\ merged' = <<>>
  /\ UNCHANGED <<rows_tmp, folded, rows_out, files, failed, mergeVars, noiseVars,
                 fileVars, ageVars, errVars>>

\* "for row in rows_tmp", one row
MergeRow ==
  /\ pc = "merging"
  /\ folded < Len(rows_tmp)
  /\ merged' = FoldRow(merged, rows_tmp[folded + 1])
  /\ folded' = folded + 1
  /\ UNCHANGED <<pc, rows_tmp, rows_out, files, failed, mergeVars, noiseVars, fileVars,
                 ageVars, errVars>>

\* "rows_out = list(merged.values())" and the rows written
WriteRows ==
  /\ pc = "merging"
  /\ folded = Len(rows_tmp)
  /\ rows_out' = ValuesInOrder(merged, rows_tmp, {})
  /\ pc' = "written"
  /\ UNCHANGED <<rows_tmp, merged, folded, files, failed, mergeVars, noiseVars,
                 fileVars, ageVars, errVars>>

NextAgg == ReadFile \/ ReadFileFails \/ StartMerge \/ MergeRow \/ WriteRows

SpecAgg == InitAgg /\ [][NextAgg]_vars

\* ---- oct.py, main
TXT_250 == <<"2", "5", "0">>
TXT_260 == <<"2", "6", "0">>
THICKNESS_R == <<"T", "h", "i", "c", "k", "n", "e", "s", "s", "1", "R">>
THICKNESS_L == <<"T", "h", "i", "c", "k", "n", "e", "s", "s", "1", "L">>
SECTOR == <<"S", "e", "c", "t", "o", "r">>

\* the Eye section of a thickness report: one eye, both eyes, or none
OctEyeSections ==
  EyeSections \cup
  { <<<<EYE, <<"S", "/", "N">>>>, <<EYE_R, <<"6", "1", "1">>>>,
      <<EYE_L, <<"6", "1", "1">>>>>> }

\* the thickness table of a report: none, or the two columns and a Center row
EtdrsSections ==
  { <<>>,
    <<<<ETDRS_TAG>>, <<SECTOR, THICKNESS_R, THICKNESS_L>>,
      <<CENTER, TXT_250, TXT_260>>>> }

OctReports == {e \o d : e \in OctEyeSections, d \in EtdrsSections}

InitOct ==
  /\ pc = "oct_reading"
  /\ files = <<>>
  /\ failed = {}
  /\ rows_out = <<>>
  /\ rows_tmp = <<>>
  /\ merged = <<>>
  /\ folded = 0
  /\ IdleMerge
  /\ IdleNoise
  /\ IdleFile
  /\ IdleAge
  /\ IdleErr

\* "for p in files: rows_out.append(process_file(p))", one file
OctReadFile ==
  /\ pc = "oct_reading"
  /\ Len(files) + Cardinality(failed) < MaxFiles
  /\ \E name \in ReportNames, rows \in OctReports :
       /\ NextFileName(name)
       /\ files' = Append(files, [name |-> name, rows |-> rows])
       /\ rows_out' = Append(rows_out, oct_process_file([name |-> name, rows |-> rows]))
  /\ UNCHANGED <<pc, rows_tmp, merged, folded, failed, mergeVars, noiseVars, fileVars,
                 ageVars, errVars>>

\* the same iteration when process_file raises: the warning is printed and
\* the loop goes on
OctReadFileFails ==
  /\ pc = "oct_reading"
  /\ Len(files) + Cardinality(failed) < MaxFiles
  /\ \E name \in ReportNames :
       /\ NextFileName(name)
       /\ failed' = failed \cup {name}
  /\ UNCHANGED <<pc, files, rows_out, rows_tmp, merged, folded, mergeVars, noiseVars,
                 fileVars, ageVars, errVars>>

\* the files are exhausted ("if not files: return" passed): the rows written
OctWriteRows ==
  /\ pc = "oct_reading"
  /\ Len(files) + Cardinality(failed) >= 1
  /\ pc' = "oct_written"
  /\ UNCHANGED <<files, rows_out, rows_tmp, merged, folded, failed, mergeVars, noiseVars,
                 fileVars, ageVars, errVars>>

NextOct == OctReadFile \/ OctReadFileFails \/ OctWriteRows

SpecOct == InitOct /\ [][NextOct]_vars

\* either per-file pipeline, run on a directory
SpecPerFile == (InitAgg \/ InitOct) /\ [][NextAgg \/ NextOct]_vars

\* ---- process_file of either pipeline, on one report
CSV == <<".", "c", "s", "v">>

\* file names: the code first, missing a digit, in the middle, twice, with a
\* fifth digit, in lower case, after a lone EG, with a full-width digit; a
\* name shorter than six characters; a name of digits only
FileNames ==
  { EG0001 \o <<"_", "1">> \o CSV,
    <<"E", "G", "0", "0", "1", "_", "1">> \o CSV,
    <<"x", "_">> \o EG0002 \o CSV,
    EG0001 \o EG0002 \o CSV,
    EG0001 \o <<"2">> \o CSV,
    <<"e", "g", "0", "0", "0", "1">> \o CSV,
    <<"E", "G">> \o EG0002 \o CSV,
    <<"E", "G", "0", "0", "0", "U+FF11">> \o CSV,
    <<"a">> \o CSV,
    <<"0", "0", "0", "1", "_", "R">> \o CSV }

SN == <<"S", "/", "N">>
TXT_611 == <<"6", "1", "1">>
NEXT_TAG == <<"<", "N", "e", "x", "t", ">">>

\* Eye sections: none; R; L; R and L; the header in one cell and a lower-case
\* l; an R row under no header; a padded header, a blank row, then R; a row
\* "Eyes" that is no header; a serial-number row before R and L; a tag row
\* before R; L, a tag row, then R; L then R; a lower-case "right"; a
\* serial-number row between R and L; a blank row between R and L; an empty
\* line before L
FileEyeSections ==
  { <<>>,
    <<<<EYE, SN>>, <<EYE_R, TXT_611>>>>,
    <<<<EYE, SN>>, <<EYE_L, TXT_611>>>>,
    <<<<EYE, SN>>, <<EYE_R, TXT_611>>, <<EYE_L, TXT_611>>>>,
    <<<<EYE_HEADER_PREFIX>>, <<<<"l">>, TXT_611>>>>,
    <<<<EYE_R, TXT_611>>>>,
    <<<<<<" ">> \o EYE \o <<" ">>, SN>>, <<Empty, Empty>>, <<EYE_R, TXT_611>>>>,
    <<<<EYE \o <<"s">>, SN>>, <<EYE_R, TXT_611>>>>,
    <<<<EYE, SN>>, <<TXT_611, SN>>, <<EYE_R, TXT_611>>, <<EYE_L, TXT_611>>>>,
    <<<<EYE, SN>>, <<NEXT_TAG>>, <<EYE_R, TXT_611>>>>,
    <<<<EYE, SN>>, <<EYE_L, TXT_611>>, <<NEXT_TAG>>, <<EYE_R, TXT_611>>>>,
    <<<<EYE, SN>>, <<EYE_L, TXT_611>>, <<EYE_R, TXT_611>>>>,
    <<<<EYE, SN>>, <<<<" ", "r", "i", "g", "h", "t">>, TXT_611>>>>,
    <<<<EYE, SN>>, <<EYE_R, TXT_611>>, <<TXT_611, SN>>, <<EYE_L, TXT_611>>>>,
    <<<<EYE, SN>>, <<EYE_R, TXT_611>>, <<Empty, <<" ">>>>, <<EYE_L, TXT_611>>>>,
    <<<<EYE, SN>>, <<>>, <<EYE_L, TXT_611>>>> }

TYPE == <<"T", "y", "p", "e">>
VD == <<"V", "D">>
TXT_ABC == <<"a", "b", "c">>
TXT_1_250_5 == <<"1", ",", "2", "5", "0", ".", "5">>
TXT_300 == <<"3", "0", "0">>
INNER_TEMPORAL == INNER \o <<" ">> \o Q_TEMPORAL
INNER_NASAL == INNER \o <<" ">> \o Q_NASAL
OUTER_NASAL == OUTER \o <<" ">> \o Q_NASAL

\* measurement sections: none; a density section with summary rows, a padded
\* zero Center and a sector; one with a blank line, a value with a comma, a
\* text that is no number, and a Center row after the next tag; one with a
\* one-cell row and a sector given twice; a thickness section with a Size
\* row, a summary row, and an empty cell; both sections; a thickness section
\* with a row of blank cells and an empty line between sector rows; one with
\* a sector row after the next tag
FileSections ==
  LET density1 == << <<ETDRS_DENSITY_TAG>>, <<TYPE, VD>>, <<WHOLE, TXT_25_17>>,
                     <<INNER, TXT_7_99>>,
                     <<<<" ">> \o CENTER \o <<" ">>, TXT_0_00, TXT_0_00>>,
                     <<INNER_TEMPORAL, TXT_10_81, TXT_25_17>> >>
      density2 == << <<ETDRS_DENSITY_TAG>>, <<CENTER, TXT_10_81>>, <<>>,
                     <<OUTER_NASAL, TXT_1_250_5>>, <<INNER_NASAL, TXT_ABC>>,
                     <<NEXT_TAG>>, <<CENTER, TXT_7_99>> >>
      density3 == << <<ETDRS_DENSITY_TAG>>, <<INNER_NASAL, TXT_7_99>>,
                     <<INNER_NASAL>>, <<CENTER, TXT_7_99>>, <<CENTER, TXT_0_00>> >>
      etdrs1   == << <<ETDRS_TAG>>, <<SECTOR, THICKNESS_R, THICKNESS_L>>,
                     <<SIZE, TXT_ABC>>, <<WHOLE, TXT_250, TXT_260>>,
                     <<CENTER, TXT_250, TXT_260>>, <<INNER_NASAL, Empty, TXT_300>> >>
      etdrs2   == << <<ETDRS_TAG>>, <<SECTOR, THICKNESS_R, THICKNESS_L>>,
                     <<CENTER, TXT_250, TXT_260>>, <<Empty, <<" ">>, Empty>>,
                     <<INNER_NASAL, TXT_300, TXT_250>>, <<>>,
                     <<INNER_TEMPORAL, TXT_250, TXT_260>> >>
      etdrs3   == << <<ETDRS_TAG>>, <<SECTOR, THICKNESS_R, THICKNESS_L>>,
                     <<CENTER, TXT_260, TXT_250>>, <<NEXT_TAG>>,
                     <<INNER_NASAL, TXT_300, TXT_300>> >>
  IN  { <<>>, density1, density2, density3, etdrs1, density1 \o etdrs1,
        density2 \o etdrs2, etdrs3 }

FileReports == {e \o d : e \in FileEyeSections, d \in FileSections}

InitFile ==
  /\ report \in [name : FileNames, rows : FileReports]
  /\ angio_done = <<>>
  /\ oct_done = <<>>
  /\ IdleMerge
  /\ IdleNoise
  /\ IdleAgg
  /\ IdleAge
  /\ IdleErr

\* process_file of angio.py, called on the report
AngioProcessFile ==
  /\ report # <<>>
  /\ angio_done = <<>>
  /\ angio_done' = << [eye_side |-> detect_eye_side(report.rows),
                       vd_dict  |-> extract_etdrs_vd(report.rows),
                       row_out  |-> process_file(report)] >>
  /\ UNCHANGED <<report, oct_done, mergeVars, noiseVars, aggVars, ageVars, errVars>>

\* process_file of oct.py, called on the report
OctProcessFile ==
  /\ report # <<>>
  /\ oct_done = <<>>
  /\ oct_done' = << [has     |-> detect_eye_presence(report.rows),
                     etdrs   |-> extract_etdrs(report.rows),
                     row_out |-> oct_process_file(report)] >>
  /\ UNCHANGED <<report, angio_done, mergeVars, noiseVars, aggVars, ageVars, errVars>>

NextFile == AngioProcessFile \/ OctProcessFile

SpecFile == InitFile /\ [][NextFile]_vars

\* ---- process_file of oct.py, on thickness tables of several layouts
\* the row below the tag: R then L; L then R; an R cell first in the row;
\* no L cell; a padded R cell before a second one; no side cell; an empty
\* line
HeaderRows ==
  { <<SECTOR, THICKNESS_R, THICKNESS_L>>,
    <<SECTOR, THICKNESS_L, THICKNESS_R>>,
    <<THICKNESS_R, SECTOR, THICKNESS_L>>,
    <<SECTOR, THICKNESS_R>>,
    <<SECTOR, <<" ">> \o THICKNESS_R \o <<" ">>, THICKNESS_R, THICKNESS_L>>,
    <<SECTOR, TYPE>>,
    <<>> }

\* the rows below it: sector rows of three, four, two cells and of one cell
SectorRows ==
  LET c3 == <<CENTER, TXT_250, TXT_260>>
      c4 == <<CENTER, TXT_250, TXT_260, TXT_300>>
      n2 == <<INNER_NASAL, TXT_300>>
      c1 == <<CENTER>>
  IN  { <<c3>>, <<c4>>, <<c3, n2>>, <<n2, c1>>, <<c4, c3>> }

\* thickness reports: an Eye section of R, of L, or of both, and a table; the
\* tag can be the last row of the report
HeaderReports ==
  LET eyes == { <<<<EYE, SN>>, <<EYE_R, TXT_611>>>>,
                <<<<EYE, SN>>, <<EYE_L, TXT_611>>>>,
                <<<<EYE, SN>>, <<EYE_R, TXT_611>>, <<EYE_L, TXT_611>>>> }
  IN  {e \o <<<<ETDRS_TAG>>>> : e \in eyes}
        \cup {e \o <<<<ETDRS_TAG>>, h>> \o d : e \in eyes, h \in HeaderRows, d \in SectorRows}

InitHeader ==
  /\ report \in [name : {EG0001 \o <<"_", "1">> \o CSV}, rows : HeaderReports]
  /\ angio_done = <<>>
  /\ oct_done = <<>>
  /\ IdleMerge
  /\ IdleNoise
  /\ IdleAgg
  /\ IdleAge
  /\ IdleErr

SpecHeader == InitHeader /\ [][OctProcessFile]_vars

\* ---------------------------------------------------------- angio_error.py
\* OUTPUT_COLUMNS: ID and the nine sectors of each eye, joined by "_"
ERR_OUTPUT_COLUMNS == OutputColumns(<<"_">>)

\* read_csv_rows: one dict per data row, header names and cells stripped; a
\* name takes the cell of its last position, "" when the row is too short
err_read_csv_rows(file) ==
  LET header == [i \in 1..Len(file.header) |-> Strip(file.header[i])]
  IN  [k \in 1..Len(file.data) |->
         [h \in Range(header) |->
            LET i == SetMax({i \in 1..Len(header) : header[i] = h})
            IN  IF i <= Len(file.data[k]) THEN Strip(file.data[k][i]) ELSE Empty]]

\* the key expand_to_etdrs_cells reads for an output column: "L_Center" for
\* L_Center, "L_Superior" for L_Inner_Superior and L_Outer_Superior
SourceKey(col) ==
  IF \E e \in {EYE_L, EYE_R} : col = e \o <<"_">> \o CENTER THEN col
  ELSE CHOOSE key \in {e \o <<"_">> \o q : e \in {EYE_L, EYE_R},
                          q \in {Q_SUPERIOR, Q_INFERIOR, Q_NASAL, Q_TEMPORAL}} :
         \E e \in {EYE_L, EYE_R}, q \in {Q_SUPERIOR, Q_INFERIOR, Q_NASAL, Q_TEMPORAL} :
           /\ key = e \o <<"_">> \o q
           /\ col \in {e \o <<"_">> \o INNER \o <<"_">> \o q,
                        e \o <<"_">> \o OUTER \o <<"_">> \o q}

\* expand_to_etdrs_cells: output column -> Optional text, <<>> being None;
\* 'row.get(key, "").strip() or None'
expand_to_etdrs_cells(row) ==
  [col \in Range(ERR_OUTPUT_COLUMNS) |->
     IF col = ID_COL THEN <<Strip(Get(row, ID_COL))>>
     ELSE LET v == Strip(Get(row, SourceKey(col)))
          IN  IF v = Empty THEN <<>> ELSE <<v>>]

\* contains1: "1" for a text that holds the character 1, "" otherwise
contains1(value) ==
  IF value = <<>> THEN Empty
  ELSE IF Strip(value[1]) = Empty THEN Empty
  ELSE IF "1" \in Range(Strip(value[1])) THEN ONE ELSE Empty

\* contains2or9: "1" for a text that holds the character 2 or 9
contains2or9(value) ==
  IF value = <<>> THEN Empty
  ELSE IF Strip(value[1]) = Empty THEN Empty
  ELSE IF "2" \in Range(Strip(value[1])) \/ "9" \in Range(Strip(value[1]))
       THEN ONE ELSE Empty

\* main: 'ex.get("ID") or ""'
IdOut(ex) == IF ex[ID_COL] = <<>> THEN Empty ELSE ex[ID_COL][1]

\* main, the two tables built from the expanded rows
rows_contains1(expanded_rows) ==
  [k \in 1..Len(expanded_rows) |->
     [col \in Range(ERR_OUTPUT_COLUMNS) |->
        IF col = ID_COL THEN IdOut(expanded_rows[k])
        ELSE contains1(expanded_rows[k][col])]]

rows_contains2or9(expanded_rows) ==
  [k \in 1..Len(expanded_rows) |->
     [col \in Range(ERR_OUTPUT_COLUMNS) |->
        IF col = ID_COL THEN IdOut(expanded_rows[k])
        ELSE contains2or9(expanded_rows[k][col])]]

\* ---- angio_error.py, main
\* the ten coarse quadrants in the order of the input columns, <<eye, quad>>
ERR_QUADS ==
  << <<EYE_L, Q_SUPERIOR>>, <<EYE_L, Q_INFERIOR>>, <<EYE_L, Q_NASAL>>,
     <<EYE_L, Q_TEMPORAL>>, <<EYE_L, CENTER>>,
     <<EYE_R, Q_SUPERIOR>>, <<EYE_R, Q_INFERIOR>>, <<EYE_R, Q_TEMPORAL>>,
     <<EYE_R, Q_NASAL>>, <<EYE_R, CENTER>> >>

\* the header of the input: ID and the ten codes, every name joined by sep
ErrHeader(sep) ==
  <<ID_COL>> \o [i \in 1..10 |-> ERR_QUADS[i][1] \o sep \o ERR_QUADS[i][2]]

\* headers: the names of the docstring, the names with "_", and those padded
ErrHeaders ==
  { ErrHeader(<<"-">>), ErrHeader(<<"_">>),
    [i \in 1..11 |-> <<" ">> \o ErrHeader(<<"_">>)[i] \o <<" ">>] }

\* the codes of a quadrant: none, 0, 1, a padded 2, 9, 12, a full-width 1
ErrCodes == { Empty, ZERO, ONE, <<" ", "2", " ">>, <<"9">>, TXT_12, FW_ONE }

\* data rows: one code in one quadrant and 0 in the others; a row of
\* different codes; a row that ends after its first code
ErrRowsIn ==
  { <<EG0001>> \o [i \in 1..10 |-> IF i = c THEN code ELSE ZERO] :
      c \in 1..10, code \in ErrCodes }
    \cup { <<EG0002, ONE, <<"9">>, TXT_12, Empty, ZERO, <<" ", "2", " ">>, TXT_19, ONE, FW_ONE,
             TXT_295>>,
           <<EG0009, TXT_19>> }

InitErr ==
  /\ err_in \in [header : ErrHeaders,
                  data : UNION {[1..len -> ErrRowsIn] : len \in 0..MaxErrRows}]
  /\ err_out = <<>>
  /\ IdleMerge
  /\ IdleNoise
  /\ IdleAgg
  /\ IdleFile
  /\ IdleAge

\* main: the input is read and expanded, and the two tables are written;
\* nothing is written for an input with no data row
ErrorMapMain ==
  /\ err_out = <<>>
  /\ LET raw_rows      == err_read_csv_rows(err_in)
         expanded_rows == [k \in 1..Len(raw_rows) |-> expand_to_etdrs_cells(raw_rows[k])]
     IN  err_out' =
           IF raw_rows = <<>>
           THEN << [written |-> FALSE, rows_contains1 |-> <<>>, rows_contains2or9 |-> <<>>] >>
           ELSE << [written |-> TRUE,
                    rows_contains1    |-> rows_contains1(expanded_rows),
                    rows_contains2or9 |-> rows_contains2or9(expanded_rows)] >>
  /\ UNCHANGED <<err_in, mergeVars, noiseVars, aggVars, fileVars, ageVars>>

SpecErr == InitErr /\ [][ErrorMapMain]_vars

\* ---- age_data.py, the row loop
SCORE_COL == <<"スコア">>

AgeNames == { <<"a", "1">> \o CSV, <<"a", "2">> \o CSV }

\* headers: the two required columns, or the score column missing
AgeHeaders == { <<ID_COL, SCORE_COL>>, <<ID_COL>> }

TXT_1_5 == <<"1", ".", "5">>

\* identifier cells: four digits at and above the threshold; suffixes 1, 10,
\* 0 and 01; the canonical form, bare and padded; lower case; blank
AgeIds ==
  { <<"3", "1", "7", "1">>, <<"3", "1", "7", "2">>,
    EG0002 \o <<"-", "1">>, EG0002 \o <<"-", "1", "0">>,
    EG0002 \o <<"-", "0">>, EG0002 \o <<"-", "0", "1">>,
    EG0002, <<" ", "E", "G", "3", "1", "7", "1", " ">>,
    <<"e", "g", "0", "0", "0", "2">>, Empty }

\* data rows: an identifier with a score or with a text that is no number,
\* a row with no score cell, a blank line
AgeRowsIn ==
  {<<id_, sc>> : id_ \in AgeIds, sc \in {TXT_1_5, TXT_ABC}}
    \cup { <<EG0002>>, <<>> }

InitAge ==
  /\ scores_by_valid_id = <<>>
  /\ invalid_id_files = <<>>
  /\ stripped_id_files = <<>>
  /\ age_file = <<>>
  /\ age_row = <<>>
  /\ age_rows = 0
  /\ age_pc = "reading"
  /\ age_failed = {}
  /\ age_out = <<>>
  /\ IdleMerge
  /\ IdleNoise
  /\ IdleAgg
  /\ IdleFile
  /\ IdleErr

\* "for path in csv_paths": the next file of the sorted list is opened
AgeOpenFile ==
  /\ age_pc = "reading"
  /\ \E name \in AgeNames, header \in AgeHeaders :
       /\ IF age_file = <<>> THEN TRUE ELSE StrLess(age_file[1].name, name)
       /\ age_file' = <<[name |-> name, header |-> header]>>
  /\ UNCHANGED <<scores_by_valid_id, invalid_id_files, stripped_id_files, age_row,
                 age_rows, age_pc, age_failed, age_out, mergeVars, noiseVars, aggVars,
                 fileVars, errVars>>

\* the same iteration on a file whose bytes are no cp932 text, or that cannot
\* be opened: open() and list(reader) stand in no try block, the exception
\* leaves the script and nothing below the loop runs
AgeOpenFails ==
  /\ age_pc = "reading"
  /\ \E name \in AgeNames :
       /\ IF age_file = <<>> THEN TRUE ELSE StrLess(age_file[1].name, name)
       /\ age_failed' = age_failed \cup {name}
  /\ age_pc' = "aborted"
  /\ UNCHANGED <<scores_by_valid_id, invalid_id_files, stripped_id_files, age_file,
                 age_row, age_rows, age_out, mergeVars, noiseVars, aggVars, fileVars,
                 errVars>>

\* "for row in rows[1:]", one data row of the file being read; a file
\* without one of the two columns is skipped before this loop
AgeRow ==
  /\ age_pc = "reading"
  /\ age_file # <<>>
  /\ age_rows < MaxAgeRows
  /\ LET idx_id    == find_col_exact(age_file[1].header, ID_COL)
         idx_score == find_col_exact(age_file[1].header, SCORE_COL)
     IN  /\ idx_id # None
         /\ idx_score # None
         /\ \E row \in AgeRowsIn :
              LET raw_id == IF idx_id[1] < Len(row) THEN Strip(row[idx_id[1] + 1]) ELSE Empty
                  score  == IF idx_score[1] < Len(row)
                            THEN to_float_safe(row[idx_score[1] + 1]) ELSE NAN
                  key    == canonical_id(raw_id)
              IN  /\ age_rows' = age_rows + 1
                  /\ IF row = <<>> \/ AllBlank(row) \/ raw_id = Empty
                     THEN /\ age_row' = <<>>
                          /\ UNCHANGED <<scores_by_valid_id, invalid_id_files,
                                         stripped_id_files>>
                     ELSE /\ age_row' = <<[raw_id |-> raw_id, score |-> score]>>
                          /\ scores_by_valid_id' =
                               IF key # None
                               THEN AppendTo(scores_by_valid_id, key[1], score)
                               ELSE scores_by_valid_id
                          /\ stripped_id_files' =
                               IF ~FourDigits(raw_id) /\ EgSuffixed(raw_id)
                               THEN AddTo(stripped_id_files, raw_id, age_file[1].name)
                               ELSE stripped_id_files
                          /\ invalid_id_files' =
                               IF key = None
                               THEN AddTo(invalid_id_files, raw_id, age_file[1].name)
                               ELSE invalid_id_files
  /\ UNCHANGED <<age_file, age_pc, age_failed, age_out, mergeVars, noiseVars, aggVars,
                 fileVars, errVars>>

\* the files are exhausted: result_rows, sorted by identifier, is written
AgeWrite ==
  /\ age_pc = "reading"
  /\ age_out' = result_rows(scores_by_valid_id)
  /\ age_pc' = "written"
  /\ UNCHANGED <<scores_by_valid_id, invalid_id_files, stripped_id_files, age_file,
                 age_row, age_rows, age_failed, mergeVars, noiseVars, aggVars, fileVars,
                 errVars>>

NextAge == AgeOpenFile \/ AgeOpenFails \/ AgeRow \/ AgeWrite

SpecAge == InitAge /\ [][NextAge]_vars

\* ------------------------------------------------------------------ claims
\* the row a file holds for an identifier, as merge_csv reads it
RowsOf(f) == to_dicts(f.header, f.data)
KeysOf(f) == LET rs == RowsOf(f) IN {RowKey(rs[i]) : i \in 1..Len(rs)} \ {Empty}
RowOf(f, id_) ==
  LET rs == RowsOf(f) IN rs[SetMax({i \in 1..Len(rs) : RowKey(rs[i]) = id_})]
IsNum(cell) == Strip(cell) # Empty /\ ParsesAsFloat(Strip(cell))

\* C1: for an identifier of both files and a column other than ID, the merged
\* cell is the priority file's number when both cells parse as numbers, the
\* one number when exactly one does, and empty when neither does (a text cell
\* counts as not a number). Numbers are written without surrounding blanks.
C1_CellRule ==
  outAB # <<>> =>
    LET o == outAB[1] IN
    \A k \in 1..Len(o.ids) :
      (o.ids[k] \in KeysOf(fileA) /\ o.ids[k] \in KeysOf(fileB)) =>
        \A c \in Range(o.columns) \ {ID_COL} :
          LET nv == Get(RowOf(fileA, o.ids[k]), c)
              ov == Get(RowOf(fileB, o.ids[k]), c)
          IN  o.rows[k][c] = IF IsNum(nv) THEN Strip(nv)
                             ELSE IF IsNum(ov) THEN Strip(ov)
                             ELSE Empty

\* C1 witness: a merged identifier whose two R_Center cells are different
\* numbers (priority wins) and whose L_Center exists in the base file only.
C1_Witness ==
  /\ outAB # <<>>
  /\ \E k \in 1..Len(outAB[1].ids) :
       LET id_ == outAB[1].ids[k] IN
       /\ id_ \in KeysOf(fileA) /\ id_ \in KeysOf(fileB)
       /\ Get(RowOf(fileA, id_), R_CENTER) = TXT_5_0
       /\ Get(RowOf(fileB, id_), R_CENTER) = TXT_3_0_PAD
       /\ L_CENTER \notin DOMAIN RowOf(fileA, id_)
       /\ Get(RowOf(fileB, id_), L_CENTER) = TXT_2_0
       /\ outAB[1].rows[k][R_CENTER] = TXT_5_0
       /\ outAB[1].rows[k][L_CENTER] = TXT_2_0

\* C2: merging A over B and B over A give the same identifiers and the same
\* columns, and a cell differs between the two results only where both files
\* hold a number in it.
C2_Commutes ==
  (outAB # <<>> /\ outBA # <<>>) =>
    LET ab == outAB[1]
        ba == outBA[1]
    IN  /\ ab.ids = ba.ids
        /\ Range(ab.columns) = Range(ba.columns)
        /\ \A k \in 1..Len(ab.ids) : \A c \in Range(ab.columns) :
             ab.rows[k][c] # ba.rows[k][c] =>
               /\ ab.ids[k] \in KeysOf(fileA) /\ ab.ids[k] \in KeysOf(fileB)
               /\ IsNum(Get(RowOf(fileA, ab.ids[k]), c))
               /\ IsNum(Get(RowOf(fileB, ab.ids[k]), c))

\* C2 witness: both orders ran; the R_Center cell, a conflict of two numbers,
\* differs between them, and the L_Center cell, a number of one file only,
\* is that number in both.
C2_Witness ==
  /\ outAB # <<>> /\ outBA # <<>>
  /\ \E k \in 1..Len(outAB[1].ids) :
       /\ outAB[1].rows[k][R_CENTER] # outBA[1].rows[k][R_CENTER]
       /\ L_CENTER \in Range(outAB[1].columns)
       /\ L_CENTER \notin Range(fileA.header)
       /\ outAB[1].rows[k][L_CENTER] = TXT_2_0
       /\ outBA[1].rows[k][L_CENTER] = TXT_2_0

\* the file that alone holds the identifier: {} when both or neither hold it
OnlyHolder(id_) ==
  IF id_ \in KeysOf(fileA) /\ id_ \notin KeysOf(fileB) THEN {fileA}
  ELSE IF id_ \in KeysOf(fileB) /\ id_ \notin KeysOf(fileA) THEN {fileB}
  ELSE {}

\* C3: the output row of an identifier held by one file only is that file's
\* row, cell for cell and text cells included, in the columns the file has,
\* and empty in the columns of the union the file lacks.
C3_CopiedThrough ==
  outAB # <<>> =>
    LET o == outAB[1] IN
    \A k \in 1..Len(o.ids) : \A f \in OnlyHolder(o.ids[k]) :
      /\ \A c \in Range(f.header) : c \in Range(o.columns)
                                     /\ o.rows[k][c] = RowOf(f, o.ids[k])[c]
      /\ \A c \in Range(o.columns) \ Range(f.header) : o.rows[k][c] = Empty

\* C3 witness: an identifier of the base file alone, with a text cell and a
\* padded identifier copied as they are, and a column the base file lacks.
C3_Witness ==
  /\ outAB # <<>>
  /\ fileA # fileB
  /\ \E k \in 1..Len(outAB[1].ids) :
       /\ OnlyHolder(outAB[1].ids[k]) = {fileB}
       /\ outAB[1].rows[k][R_CENTER] = TXT_NA
       /\ outAB[1].rows[k][ID_COL] = EG0001_PAD
       /\ L_CENTER \notin Range(fileB.header)
       /\ L_CENTER \in Range(outAB[1].columns)
       /\ outAB[1].rows[k][L_CENTER] = Empty

\* the names a header gives columns: its cells that are not blank
NamedCols(h) == {h[i] : i \in {j \in 1..Len(h) : Strip(h[j]) # Empty}}
FirstPos(c, h) == CHOOSE i \in 1..Len(h) : h[i] = c /\ \A j \in 1..(i - 1) : h[j] # c

\* C4: the output header holds ID first, then the priority file's other
\* columns in their order, then the base file's columns not yet present in
\* their order; every column name of either file is there exactly once.
C4_UnionOrder ==
  outAB # <<>> =>
    LET cols == outAB[1].columns
        src  == fileA.header \o fileB.header
    IN  /\ Range(cols) \subseteq NamedCols(src)
        /\ \A c \in NamedCols(src) : Cardinality({i \in 1..Len(cols) : cols[i] = c}) = 1
        /\ ID_COL \in Range(cols) => cols[1] = ID_COL
        /\ \A i \in 1..Len(cols) : \A j \in (i + 1)..Len(cols) :
             cols[i] # ID_COL => FirstPos(cols[i], src) < FirstPos(cols[j], src)

\* C4 witness: ID is not first in the priority header, the base header
\* repeats a priority column and adds one of its own.
C4_Witness ==
  /\ outAB # <<>>
  /\ fileA.header = <<R_CENTER, ID_COL>>
  /\ fileB.header = <<L_CENTER, R_CENTER, ID_COL>>
  /\ outAB[1].columns = <<ID_COL, R_CENTER, L_CENTER>>

\* C5: the output rows are in ascending identifier order, one row for each
\* identifier of either file and no other row, also when a file lists an
\* identifier on several rows.
C5_SortedUnique ==
  outAB # <<>> =>
    LET o == outAB[1]
        written == [k \in 1..Len(o.rows) |-> Strip(Get(o.rows[k], ID_COL))]
    IN  /\ \A i \in 1..Len(written) : \A j \in (i + 1)..Len(written) :
             StrLess(written[i], written[j])
        /\ Range(written) = KeysOf(fileA) \cup KeysOf(fileB)

\* C5 witness: the priority file lists one identifier on two rows, the base
\* file holds a smaller one, and two rows are written.
C5_Witness ==
  /\ outAB # <<>>
  /\ Len(fileA.data) = 2
  /\ KeysOf(fileA) = {EG0002}
  /\ KeysOf(fileB) = {EG0001}
  /\ Len(outAB[1].rows) = 2
  /\ outAB[1].rows[1][ID_COL] = EG0001_PAD

\* ---- Noise Mask Applier
EYES == {EYE_L, EYE_R}
QUADRANTS == {Q_SUPERIOR, Q_INFERIOR, Q_NASAL, Q_TEMPORAL, CENTER}

\* the fine sector columns of a coarse quadrant, sep between side and sector
FineCols(eye, quad, sep) ==
  IF quad = CENTER THEN {eye \o sep \o CENTER}
  ELSE {eye \o sep \o INNER \o <<"_">> \o quad, eye \o sep \o OUTER \o <<"_">> \o quad}

\* the noise row holds the quadrant and its trimmed value is the flag marker
Flagged(row, eye, quad) ==
  /\ (eye \o <<"-">> \o quad) \in DOMAIN row
  /\ Strip(row[eye \o <<"-">> \o quad]) \in {<<"1">>, <<"U+FF11">>}

\* the noise row holds the quadrant and its code has the digit 1 in it
HasDigit1(row, eye, quad) ==
  /\ (eye \o <<"-">> \o quad) \in DOMAIN row
  /\ \E i \in 1..Len(row[eye \o <<"-">> \o quad]) :
        row[eye \o <<"-">> \o quad][i] \in {"1", "U+FF11"}

\* the position of the target row kept for an identifier (the last one that
\* carries it), as a set: {} when the target has no such row
KeptRow(rows, id_) ==
  LET at == {i \in 1..Len(rows) : Strip(Get(rows[i], ID_COL)) = Strip(id_)}
  IN  IF Strip(id_) = Empty \/ at = {} THEN {} ELSE {SetMax(at)}

\* C6 as stated: after a noise row with a flagged quadrant is applied, the
\* fine sector cells L_Inner_Superior / L_Outer_Superior / L_Center (and
\* likewise for every quadrant and side) of the target row are empty.
C6_Original ==
  n # <<>> =>
    \A i \in KeptRow(merged_rows, Get(n[1], ID_COL)) :
      \A eye \in EYES : \A quad \in QUADRANTS :
        Flagged(n[1], eye, quad) =>
          \A c \in FineCols(eye, quad, <<"_">>) \cap DOMAIN merged_rows[i] :
            merged_rows[i][c] = Empty

\* C6 amended: the cells emptied are those of the columns named with a hyphen
\* after the side letter (L-Inner_Superior, L-Outer_Superior, L-Center, ...),
\* in the target row kept for the identifier.
C6_HyphenCleared ==
  n # <<>> =>
    \A i \in KeptRow(merged_rows, Get(n[1], ID_COL)) :
      \A eye \in EYES : \A quad \in QUADRANTS :
        Flagged(n[1], eye, quad) =>
          \A c \in FineCols(eye, quad, <<"-">>) \cap DOMAIN merged_rows[i] :
            merged_rows[i][c] = Empty

\* C6 witness: L-Superior alone was flagged for an identifier of the target
\* and the two cells L-Inner_Superior and L-Outer_Superior, which held a
\* value, are empty.
C6_Witness ==
  /\ n # <<>>
  /\ Flagged(n[1], EYE_L, Q_SUPERIOR)
  /\ ~Flagged(n[1], EYE_L, CENTER)
  /\ \E i \in KeptRow(merged_rows, Get(n[1], ID_COL)) :
       /\ InnerCol(EYE_L, Q_SUPERIOR) \in DOMAIN merged_rows[i]
       /\ merged0[i][InnerCol(EYE_L, Q_SUPERIOR)] = TXT_295
       /\ merged0[i][OuterCol(EYE_L, Q_SUPERIOR)] = TXT_295
       /\ merged_rows[i][InnerCol(EYE_L, Q_SUPERIOR)] = Empty
       /\ merged_rows[i][OuterCol(EYE_L, Q_SUPERIOR)] = Empty

\* C7: a step changes no cell but the fine sector cells of a quadrant flagged
\* by the noise row of that step, in a row with that row's identifier, which
\* become empty; no row and no column is added or removed.
C7_Frame ==
  [][ /\ Len(merged_rows') = Len(merged_rows)
      /\ \A i \in 1..Len(merged_rows) :
           /\ DOMAIN merged_rows'[i] = DOMAIN merged_rows[i]
           /\ \A c \in DOMAIN merged_rows[i] :
                merged_rows'[i][c] # merged_rows[i][c] =>
                  /\ n' # <<>>
                  /\ noise_read' = noise_read + 1
                  /\ Strip(Get(n'[1], ID_COL)) # Empty
                  /\ Strip(Get(n'[1], ID_COL)) = Strip(merged_rows[i][ID_COL])
                  /\ \E eye \in EYES : \E quad \in QUADRANTS :
                       /\ Flagged(n'[1], eye, quad)
                       /\ c \in FineCols(eye, quad, <<"-">>)
                  /\ merged_rows'[i][c] = Empty
    ]_vars

\* C7 witness: the last noise row flagged L-Superior and held "0" for
\* L-Center; L-Inner_Superior is empty and L-Center, and the row of the other
\* identifier, hold what they held.
C7_Witness ==
  /\ n # <<>>
  /\ Flagged(n[1], EYE_L, Q_SUPERIOR)
  /\ Get(n[1], QuadKey(EYE_L, CENTER)) = ZERO
  /\ Len(merged_rows) = 2
  /\ merged_rows[1][ID_COL] = EG0001
  /\ merged_rows[2][ID_COL] = EG0002
  /\ merged_rows[1][InnerCol(EYE_L, Q_SUPERIOR)] = Empty
  /\ merged_rows[1][QuadKey(EYE_L, CENTER)] = TXT_295
  /\ merged_rows[2] = merged0[2]

\* C8 as stated: a quadrant whose code holds the digit 1, alone or with other
\* digits, has its fine sector cells emptied.
C8_Original ==
  n # <<>> =>
    \A i \in KeptRow(merged_rows, Get(n[1], ID_COL)) :
      \A eye \in EYES : \A quad \in QUADRANTS :
        HasDigit1(n[1], eye, quad) =>
          \A c \in FineCols(eye, quad, <<"-">>) \cap DOMAIN merged_rows[i] :
            merged_rows[i][c] = Empty

\* C8 amended: a quadrant is unreliable exactly when its trimmed code equals
\* "1" or the full-width one: a step empties the fine sector cells of such a
\* quadrant and leaves those of any other code ("12", "19", "0", "") as they
\* were.
C8_ExactFlag ==
  [][ (n' # <<>> /\ noise_read' = noise_read + 1) =>
        \A i \in KeptRow(merged_rows, Get(n'[1], ID_COL)) :
          \A eye \in EYES : \A quad \in QUADRANTS :
            \A c \in FineCols(eye, quad, <<"-">>) \cap DOMAIN merged_rows[i] :
              merged_rows'[i][c] = IF Flagged(n'[1], eye, quad) THEN Empty
                                   ELSE merged_rows[i][c]
    ]_vars

\* C8 witness: the code "12" was applied to L-Superior of an identifier of the
\* target, whose L-Inner_Superior still holds its value.
C8_Witness ==
  /\ n # <<>>
  /\ Get(n[1], QuadKey(EYE_L, Q_SUPERIOR)) = TXT_12
  /\ \E i \in KeptRow(merged_rows, Get(n[1], ID_COL)) :
       /\ InnerCol(EYE_L, Q_SUPERIOR) \in DOMAIN merged_rows[i]
       /\ merged_rows[i][InnerCol(EYE_L, Q_SUPERIOR)] = TXT_295

\* the cells that held a value when apply_noise_mask was called and are empty
EmptiedCells ==
  {p \in UNION {{<<i, c>> : c \in DOMAIN merged0[i]} : i \in 1..Len(merged0)} :
     merged0[p[1]][p[2]] # Empty /\ merged_rows[p[1]][p[2]] = Empty}

\* C9: the count, and the value returned, is the number of target cells that
\* held a value before the call and are empty now.
C9_Count ==
  /\ masked_cells = Cardinality(EmptiedCells)
  /\ returned # <<>> => returned[1] = Cardinality(EmptiedCells)

\* C9 witness: two noise rows of one identifier flagged every quadrant of a
\* row that had three of the eighteen cells empty: fifteen are counted.
C9_Witness ==
  /\ returned = <<15>>
  /\ noise_read = 2
  /\ n # <<>>
  /\ \A eye \in EYES : \A quad \in QUADRANTS : Flagged(n[1], eye, quad)
  /\ \E i \in KeptRow(merged0, Get(n[1], ID_COL)) :
       /\ merged0[i][QuadKey(EYE_L, CENTER)] = Empty
       /\ \A c \in DOMAIN merged_rows[i] \ {ID_COL} : merged_rows[i][c] = Empty

\* ---- Per-File Aggregator
\* the candidate row the step takes, as a set: {} when the step takes none
RowTaken == IF folded' = folded + 1 THEN {rows_tmp[folded + 1]} ELSE {}

\* C10 as stated: once a side-prefixed cell of an identifier holds a value,
\* no later file changes it.
C10_Original ==
  [][ \A id_ \in DOMAIN merged : \A col \in DOMAIN merged[id_] \ {ID_COL} :
        merged[id_][col] # None =>
          (id_ \in DOMAIN merged' /\ merged'[id_][col] = merged[id_][col])
    ]_vars

\* C10 amended: a cell that holds a value never becomes missing again; a
\* later file of the identifier that has a value for the cell replaces it,
\* and any other file leaves it as it was.
C10_NeverErased ==
  [][ \A id_ \in DOMAIN merged : \A col \in DOMAIN merged[id_] \ {ID_COL} :
        merged[id_][col] # None =>
          /\ id_ \in DOMAIN merged'
          /\ merged'[id_][col] # None
          /\ merged'[id_][col] =
               IF \E r \in RowTaken : r[ID_COL] = id_ /\ r[col] # None
               THEN rows_tmp[folded + 1][col]
               ELSE merged[id_][col]
    ]_vars

\* C10 witness: two files of one identifier and one eye; the second replaced
\* the Center value of the first by its own, a zero, and left the Inner
\* Temporal value, which it lacks.
C10_Witness ==
  /\ pc = "merging"
  /\ folded = 2
  /\ rows_tmp[1][ID_COL] = EG0001
  /\ rows_tmp[2][ID_COL] = EG0001
  /\ rows_tmp[1][R_CENTER] = <<1081>>
  /\ rows_tmp[2][R_CENTER] = <<0>>
  /\ rows_tmp[1][<<"R", "_">> \o INNER \o <<"_">> \o Q_TEMPORAL] = <<799>>
  /\ rows_tmp[2][<<"R", "_">> \o INNER \o <<"_">> \o Q_TEMPORAL] = None
  /\ merged[EG0001][R_CENTER] = <<0>>
  /\ merged[EG0001][<<"R", "_">> \o INNER \o <<"_">> \o Q_TEMPORAL] = <<799>>

\* the value of the last of rows that has the identifier and a value in col
LastVal(rows, id_, col) ==
  LET at == {i \in 1..Len(rows) : rows[i][ID_COL] = id_ /\ rows[i][col] # None}
  IN  IF at = {} THEN None ELSE rows[SetMax(at)][col]

\* C11: when several files resolve to one identifier, each merged cell holds
\* the value of the last file, in file order, that has a value for the cell;
\* a missing value of a later file erases nothing, and the cell is missing
\* only if every file of the identifier has it missing.
C11_LastWriter ==
  LET taken == SubSeq(rows_tmp, 1, folded)
  IN  /\ DOMAIN merged = {taken[i][ID_COL] : i \in 1..Len(taken)}
      /\ \A id_ \in DOMAIN merged :
           \A col \in Range(ANGIO_OUTPUT_COLUMNS) \ {ID_COL} :
             merged[id_][col] = LastVal(taken, id_, col)

\* C11 witness: three files of one identifier with Center 10.81, then 0.00,
\* then missing; the row written holds 0.00.
C11_Witness ==
  /\ pc = "written"
  /\ Len(rows_tmp) = 3
  /\ \A i \in 1..3 : rows_tmp[i][ID_COL] = EG0001
  /\ rows_tmp[1][R_CENTER] = <<1081>>
  /\ rows_tmp[2][R_CENTER] = <<0>>
  /\ rows_tmp[3][R_CENTER] = None
  /\ Len(rows_out) = 1
  /\ rows_out[1][R_CENTER] = <<0>>

\* ---- the aggregate table written
IdsOf(rows) == {rows[i][ID_COL] : i \in 1..Len(rows)}

OneRowPerId(rows) ==
  \A i, j \in 1..Len(rows) : rows[i][ID_COL] = rows[j][ID_COL] => i = j

\* C12 as stated: the table either pipeline writes has at most one data row
\* per identifier.
C12_Original == pc \in {"written", "oct_written"} => OneRowPerId(rows_out)

\* C12 amended: the density pipeline writes one row per identifier of its
\* files, several files of an identifier combined; the thickness pipeline
\* writes the candidate row of every file, in file order, several rows for
\* an identifier that several files resolve to.
C12_RowsWritten ==
  /\ pc = "written" =>
       /\ OneRowPerId(rows_out)
       /\ IdsOf(rows_out) = {get_id_from_filename(files[i].name) : i \in 1..Len(files)}
  /\ pc = "oct_written" =>
       /\ Len(rows_out) = Len(files)
       /\ \A i \in 1..Len(files) :
            rows_out[i][ID_COL] = get_id_from_filename(files[i].name)

\* C12 witness: the thickness pipeline wrote two rows of EG0001, one for
\* each of two files of that identifier.
C12_Witness ==
  /\ pc = "oct_written"
  /\ Len(files) = 2
  /\ Len(rows_out) = 2
  /\ rows_out[1][ID_COL] = EG0001
  /\ rows_out[2][ID_COL] = EG0001
  /\ rows_out[1][<<"R", "-">> \o CENTER] = <<25000>>
  /\ rows_out[2][<<"R", "-">> \o CENTER] = None

\* ---- the identifier of a candidate row
\* EG followed by exactly four digits
IsCanonical(id_) ==
  /\ Len(id_) = 6
  /\ id_[1] = "E" /\ id_[2] = "G"
  /\ \A k \in 3..6 : IsDigit(id_[k])

\* the candidate rows process_file has built in this state
RowsBuilt ==
  {angio_done[i].row_out : i \in 1..Len(angio_done)}
    \cup {oct_done[i].row_out : i \in 1..Len(oct_done)}

\* the positions of the name where EG and four digits stand
CodesIn(name) ==
  {i \in 1..(Len(name) - 5) : IsCanonical(SubSeq(name, i, i + 5))}

\* C13 as stated: every candidate row built by process_file has an ID of the
\* form EG + four digits, whatever the file name.
C13_Original == \A r \in RowsBuilt : IsCanonical(r[ID_COL])

\* C13 amended: the ID of a candidate row is the first EG + four digits
\* found in the file name, and, for a file name that holds no such code, the
\* first six characters of the name, which are not a canonical identifier.
C13_IdFromName ==
  \A r \in RowsBuilt :
    LET name == report.name
        id_  == r[ID_COL]
    IN  IF CodesIn(name) # {}
        THEN /\ IsCanonical(id_)
             /\ \E i \in CodesIn(name) :
                  /\ id_ = SubSeq(name, i, i + 5)
                  /\ \A k \in CodesIn(name) : i <= k
        ELSE /\ id_ = [k \in 1..(IF Len(name) < 6 THEN Len(name) ELSE 6) |-> name[k]]
             /\ ~IsCanonical(id_)

\* C13 witness: both pipelines built the row of EG001_1.csv, a name with no
\* code: the ID is EG001_.
C13_Witness ==
  /\ angio_done # <<>>
  /\ oct_done # <<>>
  /\ report.name = <<"E", "G", "0", "0", "1", "_", "1">> \o CSV
  /\ angio_done[1].row_out[ID_COL] = <<"E", "G", "0", "0", "1", "_">>
  /\ oct_done[1].row_out[ID_COL] = <<"E", "G", "0", "0", "1", "_">>

\* ---- the Eye section
\* the report has no Eye section: no row is the Eye header, by its first
\* cell or by its whole line
NoEyeSection(rows) ==
  \A i \in 1..Len(rows) :
    /\ rows[i] # <<>> => Strip(rows[i][1]) # EYE
    /\ ~StartsWith(Join(rows[i]), EYE_HEADER_PREFIX)

AllSideColumnsMissing(row) == \A c \in DOMAIN row \ {ID_COL} : row[c] = None

\* C14: for a report with no Eye section the resolver reports no side (None
\* in the density pipeline, false/false in the thickness pipeline) and every
\* side-prefixed column of the candidate row is missing, whatever the sector
\* values of the report.
C14_NoEyeNoSide ==
  NoEyeSection(report.rows) =>
    /\ \A i \in 1..Len(angio_done) :
         /\ angio_done[i].eye_side = None
         /\ AllSideColumnsMissing(angio_done[i].row_out)
    /\ \A i \in 1..Len(oct_done) :
         /\ oct_done[i].has = <<FALSE, FALSE>>
         /\ AllSideColumnsMissing(oct_done[i].row_out)

\* C14 witness: a report with an R row under no Eye header and with sector
\* values in both sections, processed by both pipelines; no column is filled.
C14_Witness ==
  /\ angio_done # <<>>
  /\ oct_done # <<>>
  /\ NoEyeSection(report.rows)
  /\ Len(report.rows) > 0
  /\ report.rows[1] = <<EYE_R, TXT_611>>
  /\ angio_done[1].vd_dict[INNER_TEMPORAL] = <<1081>>
  /\ oct_done[1].etdrs[CENTER] = <<<<25000>>, <<26000>>>>
  /\ AllSideColumnsMissing(angio_done[1].row_out)
  /\ AllSideColumnsMissing(oct_done[1].row_out)

\* ---- density pipeline, placement by eye side
\* the readings of the reports of the directory, in hundredths
Reading(text) ==
  CASE text = TXT_0_00 -> 0 [] text = TXT_10_81 -> 1081
    [] text = TXT_7_99 -> 799 [] text = TXT_25_17 -> 2517

OtherEye(e) == IF e = EYE_L THEN EYE_R ELSE EYE_L

\* C15: a report whose Eye section resolves to L has the value of each
\* sector row of its density section in the L_ column, a reading of 0.00 as
\* the present value 0, and every R_ column missing (and symmetrically for
\* R); the zero stays present through the merge, until a later file of the
\* identifier gives the cell another value.
C15_SingleSide ==
  \A i \in 1..Len(files) : \A e \in {EYE_L, EYE_R} :
    detect_eye_side(files[i].rows) = e =>
      /\ \A k \in 1..Len(files[i].rows) :
           LET r == files[i].rows[k]
           IN  r[1] \in Range(SECTORS) =>
                 rows_tmp[i][e \o <<"_">> \o ReplaceSpace(r[1])] = <<Reading(r[2])>>
      /\ \A sec \in Range(SECTORS) :
           rows_tmp[i][OtherEye(e) \o <<"_">> \o ReplaceSpace(sec)] = None
      /\ \A sec \in Range(SECTORS) :
           LET c   == e \o <<"_">> \o ReplaceSpace(sec)
               id_ == rows_tmp[i][ID_COL]
           IN  (i <= folded /\ rows_tmp[i][c] = <<0>>) =>
                 /\ merged[id_][c] # None
                 /\ (\A k \in (i + 1)..folded :
                       rows_tmp[k][ID_COL] = id_ => rows_tmp[k][c] = None)
                    => merged[id_][c] = <<0>>

\* C15 witness: a right-eye report with Center 10.81, then a left-eye report
\* of the same identifier with Center 0.00; the merged row holds L_Center 0
\* beside R_Center 10.81.
C15_Witness ==
  /\ pc = "merging"
  /\ folded = 2
  /\ detect_eye_side(files[1].rows) = EYE_R
  /\ detect_eye_side(files[2].rows) = EYE_L
  /\ files[2].rows[Len(files[2].rows)] = <<CENTER, TXT_0_00, TXT_0_00>>
  /\ rows_tmp[2][L_CENTER] = <<0>>
  /\ rows_tmp[2][R_CENTER] = None
  /\ rows_tmp[1][ID_COL] = rows_tmp[2][ID_COL]
  /\ merged[rows_tmp[2][ID_COL]][L_CENTER] = <<0>>
  /\ merged[rows_tmp[2][ID_COL]][R_CENTER] = <<1081>>

\* ---- the Sector Table Extractor
\* the value of a cell text of the reports, in hundredths, None for a text
\* that is no number
ValueOf(text) ==
  CASE text = TXT_0_00 -> <<0>> [] text = TXT_10_81 -> <<1081>>
    [] text = TXT_7_99 -> <<799>> [] text = TXT_25_17 -> <<2517>>
    [] text = TXT_1_250_5 -> <<125050>> [] text = TXT_250 -> <<25000>>
    [] text = TXT_260 -> <<26000>> [] text = TXT_300 -> <<30000>>
    [] text = TXT_ABC -> None [] text = Empty -> None

\* the first row whose trimmed first cell is the tag, 0 if there is none
TagRow(rows, tag) ==
  LET at == {i \in 1..Len(rows) : rows[i] # <<>> /\ Strip(rows[i][1]) = tag}
  IN  IF at = {} THEN 0 ELSE CHOOSE i \in at : \A k \in at : i <= k

IsTagRow(r) == r # <<>> /\ StartsWith(Strip(r[1]), <<"<">>)

\* the rows of the density section: those after the tag row and before the
\* next tag row
DensityRows(rows) ==
  LET t == TagRow(rows, ETDRS_DENSITY_TAG)
  IN  IF t = 0 THEN {}
      ELSE {i \in (t + 1)..Len(rows) : \A k \in (t + 1)..i : ~IsTagRow(rows[k])}

\* the rows of the thickness section: those after the tag row and its header
\* row and before the next blank line or tag row
ThicknessRows(rows) ==
  LET t == TagRow(rows, ETDRS_TAG)
  IN  IF t = 0 THEN {}
      ELSE {i \in (t + 2)..Len(rows) :
              \A k \in (t + 2)..i : rows[k] # <<>> /\ ~IsTagRow(rows[k])}

\* the rows among at that carry the sector name and at least cells cells
NamedRows(rows, at, sec, cells) ==
  {i \in at : Len(rows[i]) >= cells /\ Strip(rows[i][1]) = sec}

\* C16: for each of the nine sectors the extractor's result is given by the
\* rows of the section whose trimmed first cell is the sector name alone (the
\* last of them); rows of other names (Whole, Inner, Outer, Type, Size)
\* change nothing, and a sector with no row, or any sector of a report
\* without the section tag, is missing.
C16_OnlyNamedRows ==
  /\ \A i \in 1..Len(angio_done) : \A sec \in Range(SECTORS) :
       LET at == NamedRows(report.rows, DensityRows(report.rows), sec, 2)
       IN  angio_done[i].vd_dict[sec] =
             IF at = {} THEN None ELSE ValueOf(report.rows[SetMax(at)][2])
  /\ \A i \in 1..Len(oct_done) : \A sec \in Range(SECTORS) :
       LET at == NamedRows(report.rows, ThicknessRows(report.rows), sec, 1)
       IN  oct_done[i].etdrs[sec] =
             IF at = {} THEN <<None, None>>
             ELSE << ValueOf(report.rows[SetMax(at)][2]),
                     ValueOf(report.rows[SetMax(at)][3]) >>

\* C16 witness: a report with both sections, read by both extractors: the
\* padded Center row gives 0.00 beside the Whole and Inner rows, Inner Nasal
\* has no density row, and the thickness rows give their two columns.
C16_Witness ==
  /\ angio_done # <<>>
  /\ oct_done # <<>>
  /\ \E i \in DensityRows(report.rows) : report.rows[i] = <<INNER, TXT_7_99>>
  /\ \E i \in ThicknessRows(report.rows) : report.rows[i] = <<WHOLE, TXT_250, TXT_260>>
  /\ angio_done[1].vd_dict[CENTER] = <<0>>
  /\ angio_done[1].vd_dict[INNER_TEMPORAL] = <<1081>>
  /\ angio_done[1].vd_dict[INNER_NASAL] = None
  /\ oct_done[1].etdrs[CENTER] = <<<<25000>>, <<26000>>>>
  /\ oct_done[1].etdrs[INNER_NASAL] = <<None, <<30000>>>>
  /\ oct_done[1].etdrs[OUTER_NASAL] = <<None, None>>

\* ---- the Identifier Canonicalizer
\* the step reads a data row that has an identifier
RowRead == age_rows' = age_rows + 1 /\ age_row' # <<>>

\* the scores an identifier has in the calculation map
ScoresOf(d, k) == IF k \in DOMAIN d THEN d[k] ELSE <<>>

\* the file names under an identifier in a report map
NamesOf(d, k) == IF k \in DOMAIN d THEN d[k] ELSE {}

\* the row's score went to the key k and to no other key
ScoreEnters(k) ==
  /\ DOMAIN scores_by_valid_id' = DOMAIN scores_by_valid_id \cup {k}
  /\ scores_by_valid_id'[k] = Append(ScoresOf(scores_by_valid_id, k), age_row'[1].score)
  /\ \A x \in DOMAIN scores_by_valid_id : x # k => scores_by_valid_id'[x] = scores_by_valid_id[x]

\* the row's identifier went to the reject map with the file's name, and
\* its score to no key
Rejected(raw_id) ==
  /\ scores_by_valid_id' = scores_by_valid_id
  /\ stripped_id_files' = stripped_id_files
  /\ DOMAIN invalid_id_files' = DOMAIN invalid_id_files \cup {raw_id}
  /\ invalid_id_files'[raw_id] = NamesOf(invalid_id_files, raw_id) \cup {age_file[1].name}

IsFourDigits(t) == Len(t) = 4 /\ \A k \in 1..4 : IsDigit(t[k])

\* C17: a raw identifier of exactly four digits whose value is at most 3171
\* becomes EG + the four digits and its score enters the calculation; one
\* above 3171 contributes no score and is recorded in the reject map with
\* the name of its file.
C17_FourDigitRule ==
  [][ (RowRead /\ IsFourDigits(age_row'[1].raw_id)) =>
        LET raw_id == age_row'[1].raw_id
        IN  IF DigitsVal(raw_id) <= 3171
            THEN /\ ScoreEnters(<<"E", "G">> \o raw_id)
                 /\ invalid_id_files' = invalid_id_files
            ELSE Rejected(raw_id)
    ]_vars

\* C17 witness: 3172 was rejected with its file name, then 3171, the
\* threshold itself, entered the calculation as EG3171.
C17_Witness ==
  /\ age_rows = 2
  /\ age_row # <<>>
  /\ age_row[1].raw_id = <<"3", "1", "7", "1">>
  /\ DOMAIN scores_by_valid_id = {<<"E", "G", "3", "1", "7", "1">>}
  /\ scores_by_valid_id[<<"E", "G", "3", "1", "7", "1">>] = <<<<150>>>>
  /\ DOMAIN invalid_id_files = {<<"3", "1", "7", "2">>}
  /\ invalid_id_files[<<"3", "1", "7", "2">>] = {age_file[1].name}

\* EG + four digits + "-" + digits, the digits being any run (Loose) or a
\* positive integer written without a leading zero (Strict)
LooseSuffix(t) ==
  /\ Len(t) >= 8
  /\ IsCanonical(SubSeq(t, 1, 6))
  /\ t[7] = "-"
  /\ \A k \in 8..Len(t) : IsDigit(t[k])

StrictSuffix(t) ==
  LooseSuffix(t) /\ t[8] \in {"1", "2", "3", "4", "5", "6", "7", "8", "9"}

SuffixAccepted(raw_id) ==
  /\ ScoreEnters(SubSeq(raw_id, 1, 6))
  /\ invalid_id_files' = invalid_id_files
  /\ DOMAIN stripped_id_files' = DOMAIN stripped_id_files \cup {raw_id}
  /\ stripped_id_files'[raw_id] = NamesOf(stripped_id_files, raw_id) \cup {age_file[1].name}

\* C18 as stated: every raw identifier EG + four digits + "-" + one or more
\* digits has its score accumulated under the part before the "-" and is
\* recorded, with its file name, in the audit map.
C18_Original ==
  [][ (RowRead /\ LooseSuffix(age_row'[1].raw_id)) => SuffixAccepted(age_row'[1].raw_id) ]_vars

\* C18 amended: that holds for a suffix that is a positive integer written
\* without a leading zero (first digit 1 to 9); an identifier whose suffix
\* starts with 0 is rejected: no score, and its name in the reject map.
C18_SuffixRule ==
  [][ (RowRead /\ LooseSuffix(age_row'[1].raw_id)) =>
        IF StrictSuffix(age_row'[1].raw_id)
        THEN SuffixAccepted(age_row'[1].raw_id)
        ELSE Rejected(age_row'[1].raw_id)
    ]_vars

\* C18 witness: EG0002 and then EG0002-10 were read: both scores stand under
\* EG0002, and EG0002-10 is in the audit map with its file name.
C18_Witness ==
  /\ age_rows = 2
  /\ age_row # <<>>
  /\ age_row[1].raw_id = EG0002 \o <<"-", "1", "0">>
  /\ DOMAIN scores_by_valid_id = {EG0002}
  /\ scores_by_valid_id[EG0002] = <<<<150>>, NAN>>
  /\ DOMAIN stripped_id_files = {EG0002 \o <<"-", "1", "0">>}
  /\ stripped_id_files[EG0002 \o <<"-", "1", "0">>] = {age_file[1].name}
  /\ invalid_id_files = <<>>

\* the keys of the calculation map the step gave a score to
KeysGrown ==
  {k \in DOMAIN scores_by_valid_id' :
     Len(scores_by_valid_id'[k]) > Len(ScoresOf(scores_by_valid_id, k))}

\* C19: an identifier already canonical is accepted under itself; the key
\* of every accepted identifier is canonical, and canonicalizing the key
\* again gives the key.
C19_Idempotent ==
  [][ RowRead =>
        /\ IsCanonical(age_row'[1].raw_id) => KeysGrown = {age_row'[1].raw_id}
        /\ \A k \in KeysGrown : IsCanonical(k) /\ canonical_id(k) = <<k>>
    ]_vars

\* C19 witness: the padded " EG3171 " was read after 3171: both scores
\* stand under the one key EG3171.
C19_Witness ==
  /\ age_rows = 2
  /\ age_row # <<>>
  /\ age_row[1].raw_id = <<"E", "G", "3", "1", "7", "1">>
  /\ DOMAIN scores_by_valid_id = {<<"E", "G", "3", "1", "7", "1">>}
  /\ Len(scores_by_valid_id[<<"E", "G", "3", "1", "7", "1">>]) = 2
  /\ canonical_id(<<"3", "1", "7", "1">>) = <<<<"E", "G", "3", "1", "7", "1">>>>
  /\ invalid_id_files = <<>>
  /\ stripped_id_files = <<>>

\* an identifier of one of the accepted shapes: four digits up to 3171,
\* EG + four digits, or that followed by "-" and a positive integer
AcceptedShape(t) ==
  \/ IsFourDigits(t) /\ DigitsVal(t) <= 3171
  \/ IsCanonical(t)
  \/ StrictSuffix(t)

\* C20: every key of the calculation map is canonical; a raw identifier of
\* none of the accepted shapes gives its score to no key and stands in the
\* reject map with the names of the files it occurred in; no identifier is
\* both in the reject map and used for the calculation.
C20_Rejection ==
  /\ [](/\ \A k \in DOMAIN scores_by_valid_id : IsCanonical(k)
        /\ \A r \in DOMAIN invalid_id_files :
             /\ ~AcceptedShape(r)
             /\ invalid_id_files[r] # {}
             /\ r \notin DOMAIN scores_by_valid_id
             /\ r \notin DOMAIN stripped_id_files)
  /\ [][ RowRead =>
           IF AcceptedShape(age_row'[1].raw_id)
           THEN invalid_id_files' = invalid_id_files /\ KeysGrown # {}
           ELSE Rejected(age_row'[1].raw_id)
       ]_vars

\* C20 witness: eg0002 was read in two files and EG0002 in one: the reject
\* map holds eg0002 with both file names, the calculation map EG0002 alone.
C20_Witness ==
  /\ age_rows = 3
  /\ DOMAIN invalid_id_files = {<<"e", "g", "0", "0", "0", "2">>}
  /\ invalid_id_files[<<"e", "g", "0", "0", "0", "2">>] = AgeNames
  /\ DOMAIN scores_by_valid_id = {EG0002}
  /\ stripped_id_files = <<>>

\* ---- the loops over input files
\* the three pipelines that iterate over a directory of input files
SpecBatch == (InitAgg \/ InitOct \/ InitAge) /\ [][NextAgg \/ NextOct \/ NextAge]_vars

\* the density and the thickness pipeline: a file whose processing raises
\* leaves the rows collected so far and the loop as they were
PerFileIsolated ==
  failed' # failed =>
    /\ pc' = pc
    /\ rows_tmp' = rows_tmp
    /\ rows_out' = rows_out
    /\ files' = files

\* the score pipeline: the same of a file whose read raises
ScoreFileIsolated ==
  age_failed' # age_failed =>
    /\ age_pc' = "reading"
    /\ scores_by_valid_id' = scores_by_valid_id
    /\ invalid_id_files' = invalid_id_files

\* C21: in every pipeline that iterates over input files, a failure while
\* reading or parsing one file drops only that file's contribution: the loop
\* goes on to the remaining files and the output is still written, the batch
\* is never aborted by one file.
C21_Isolation == [][PerFileIsolated /\ ScoreFileIsolated]_vars

\* C21, the two pipelines it holds for: angio.py and oct.py go on after a
\* file that raised, and write the rows of the other files.
C21_PerFile ==
  /\ [][PerFileIsolated]_vars
  /\ [](pc = "written" => IdsOf(rows_out) = {get_id_from_filename(files[i].name) : i \in 1..Len(files)})
  /\ [](pc = "oct_written" => Len(rows_out) = Len(files))

\* C21 witness: the score pipeline read two scores of EG0002 from a file, the
\* next file could not be decoded, and the run ended with nothing written.
C21_Witness ==
  /\ age_pc = "aborted"
  /\ age_failed # {}
  /\ EG0002 \in DOMAIN scores_by_valid_id
  /\ pick_score(scores_by_valid_id[EG0002]) # None
  /\ age_out = <<>>

\* C21, a density run that lost one file of two and wrote the other
C21_PerFileWitness ==
  /\ pc = "written"
  /\ Cardinality(failed) = 1
  /\ Len(rows_out) = 1

\* ---- the tables a stage is given
\* the Cross-Table Merger and the Noise Mask Applier, each on its inputs
NextTables == (IdleNoise /\ NextMerge) \/ (IdleMerge /\ NextNoise)

SpecTables == (InitMerge \/ InitNoise) /\ [][NextTables]_vars

\* the two tables merge_csv read are what they were
MergeInputsKept == fileA' = fileA /\ fileB' = fileB

\* the cells of the table apply_noise_mask was given that no longer hold
\* what they held
ChangedCells ==
  {<<i, c>> \in UNION {{<<i, c>> : c \in DOMAIN merged0[i]} : i \in DOMAIN merged0} :
     merged_rows[i][c] # merged0[i][c]}

\* C22, as stated: the Cross-Table Merger and the Noise Mask Applier do not
\* mutate their inputs; after merge_csv the rows of both input tables hold
\* the same values as before, and after apply_noise_mask the target table
\* passed in holds the same cell values as before the call.
C22_Original == [](merged_rows = merged0) /\ [][MergeInputsKept]_vars

\* C22, amended: merge_csv leaves the rows of both input tables as they were;
\* apply_noise_mask blanks the cleared cells in the rows of the table passed
\* in and returns only their count: the table keeps its rows and columns, a
\* changed cell is "", and the number of changed cells is the count returned.
C22_InPlace ==
  /\ [][MergeInputsKept]_vars
  /\ [](/\ DOMAIN merged_rows = DOMAIN merged0
        /\ \A i \in DOMAIN merged0 : DOMAIN merged_rows[i] = DOMAIN merged0[i]
        /\ \A ic \in ChangedCells : merged_rows[ic[1]][ic[2]] = Empty
        /\ Cardinality(ChangedCells) = masked_cells
        /\ returned # <<>> => returned[1] = Cardinality(ChangedCells))

\* C22 witness: apply_noise_mask returned a count above zero and the table it
\* was given is no longer the table that was read.
C22_Witness ==
  /\ returned # <<>>
  /\ returned[1] > 0
  /\ merged_rows # merged0
  /\ ChangedCells # {}

\* ---- the rows under the Eye header
\* the trimmed, upper-cased first cell of a row
FirstCell(r) == IF r = <<>> THEN Empty ELSE Upper(Strip(r[1]))

\* the side a row names, None for a row that names no side
SideOf(r) ==
  IF StartsWith(FirstCell(r), <<"R">>) THEN EYE_R
  ELSE IF StartsWith(FirstCell(r), <<"L">>) THEN EYE_L
  ELSE None

FullyBlank(r) == \A k \in 1..Len(r) : Strip(r[k]) = Empty

\* the rows after row h, and the first of a set of rows (0 if there is none)
After(rows, h) == (h + 1)..Len(rows)
First(S) == IF S = {} THEN 0 ELSE CHOOSE j \in S : \A k \in S : j <= k
SideRows(rows, h) == {j \in After(rows, h) : SideOf(rows[j]) # None}
BoundaryRows(rows, h) == {j \in After(rows, h) : IsTagRow(rows[j])}
BlankRows(rows, h) == {j \in After(rows, h) : FullyBlank(rows[j])}

\* C23: single-verdict mode: the result is the side of the first row after
\* the Eye header whose trimmed, upper-cased first cell starts with R or L;
\* rows after that row never change the result; and if a row whose first
\* cell starts with "<" occurs before any such row, no side is returned.
C23_FirstSideRow ==
  \A i \in 1..Len(angio_done) :
    LET rows == report.rows
        h    == EyeIndex(rows)
        j    == First(SideRows(rows, h))
        b    == First(BoundaryRows(rows, h))
    IN  h # 0 =>
          /\ angio_done[i].eye_side =
               IF j = 0 \/ (b # 0 /\ b < j) THEN None ELSE SideOf(rows[j])
          /\ j # 0 => detect_eye_side(SubSeq(rows, 1, j)) = angio_done[i].eye_side

\* C23 witness: an L row, then a tag row, then an R row under the header;
\* the side resolved is L.
C23_Witness ==
  /\ angio_done # <<>>
  /\ EyeIndex(report.rows) = 1
  /\ Len(report.rows) >= 4
  /\ SideOf(report.rows[2]) = EYE_L
  /\ IsTagRow(report.rows[3])
  /\ SideOf(report.rows[4]) = EYE_R
  /\ angio_done[1].eye_side = EYE_L

\* the rows of a report before row k (all of them when k = 0)
Before(rows, k) == IF k = 0 THEN rows ELSE SubSeq(rows, 1, k - 1)

\* a report without its fully blank rows
NoBlankRows(rows) == SelectSeq(rows, LAMBDA r : ~FullyBlank(r))

\* C24, as stated: in both modes a fully blank row after the Eye header halts
\* scanning: the verdict is that of the rows before the first fully blank
\* row, an R or L row after it never contributes.
C24_Original ==
  /\ \A i \in 1..Len(angio_done) :
       LET h == EyeIndex(report.rows)
       IN  h # 0 => angio_done[i].eye_side =
                      detect_eye_side(Before(report.rows, First(BlankRows(report.rows, h))))
  /\ \A i \in 1..Len(oct_done) :
       LET h == OctEyeIndex(report.rows)
       IN  h # 0 => oct_done[i].has =
                      detect_eye_presence(Before(report.rows, First(BlankRows(report.rows, h))))

\* C24, amended: presence mode halts at the first fully blank row after the
\* Eye header, an R or L row after it sets no flag; single-verdict mode
\* passes over fully blank rows, its verdict is that of the report without
\* them, so the first R or L row after a blank row gives the side when no
\* side row and no tag row precedes it.
C24_BlankRows ==
  /\ \A i \in 1..Len(angio_done) :
       /\ angio_done[i].eye_side = detect_eye_side(NoBlankRows(report.rows))
       /\ LET h == EyeIndex(report.rows)
              j == First(SideRows(report.rows, h))
              k == First(BlankRows(report.rows, h))
              b == First(BoundaryRows(report.rows, h))
          IN  (h # 0 /\ k # 0 /\ k < j /\ (b = 0 \/ j < b)) =>
                angio_done[i].eye_side = SideOf(report.rows[j])
  /\ \A i \in 1..Len(oct_done) :
       LET h == OctEyeIndex(report.rows)
       IN  h # 0 => oct_done[i].has =
                      detect_eye_presence(Before(report.rows, First(BlankRows(report.rows, h))))

\* C24 witness: a blank row directly under the header and an L row after it;
\* the density pipeline resolved L.
C24_Witness ==
  /\ angio_done # <<>>
  /\ EyeIndex(report.rows) = 1
  /\ Len(report.rows) >= 3
  /\ FullyBlank(report.rows[2])
  /\ SideOf(report.rows[3]) = EYE_L
  /\ angio_done[1].eye_side = EYE_L

\* the first row after the header that ends the Eye section for the claim: a
\* tag row or a fully blank row
SectionEnd(rows, h) == First(BoundaryRows(rows, h) \cup BlankRows(rows, h))

\* the first row after the header that is no R and no L row
FirstOther(rows, h) == First(After(rows, h) \ SideRows(rows, h))

\* some row after the header and before row e (any row when e = 0) names side
SeenBefore(rows, h, e, side) ==
  \E j \in SideRows(rows, h) : (e = 0 \/ j < e) /\ SideOf(rows[j]) = side

C25_OrderWitness ==
  /\ oct_done # <<>>
  /\ OctEyeIndex(report.rows) = 1
  /\ Len(report.rows) >= 3
  /\ SideOf(report.rows[2]) = EYE_L
  /\ SideOf(report.rows[3]) = EYE_R
  /\ oct_done[1].has = <<TRUE, TRUE>>

\* ---- the end of a measurement section
\* the rows from row a on that come before the first tag row or fully blank
\* row
UpToEnd(rows, a) ==
  {i \in a..Len(rows) : \A k \in a..i : ~IsTagRow(rows[k]) /\ ~FullyBlank(rows[k])}

\* a report without its rows of blank cells, empty lines kept
NoBlankCellRows(rows) == SelectSeq(rows, LAMBDA r : r = <<>> \/ ~FullyBlank(r))

\* C26, as stated: the Sector Table Extractor reads only rows of the section,
\* which ends at the first row after the tag that is another tag row or a
\* fully blank row; a recognized sector row after that end never changes the
\* extracted values.
C26_Original ==
  /\ \A i \in 1..Len(angio_done) : \A sec \in Range(SECTORS) :
       LET t  == TagRow(report.rows, ETDRS_DENSITY_TAG)
           at == IF t = 0 THEN {} ELSE NamedRows(report.rows, UpToEnd(report.rows, t + 1), sec, 2)
       IN  angio_done[i].vd_dict[sec] =
             IF at = {} THEN None ELSE ValueOf(report.rows[SetMax(at)][2])
  /\ \A i \in 1..Len(oct_done) : \A sec \in Range(SECTORS) :
       LET t  == TagRow(report.rows, ETDRS_TAG)
           at == IF t = 0 THEN {} ELSE NamedRows(report.rows, UpToEnd(report.rows, t + 1), sec, 1)
       IN  oct_done[i].etdrs[sec] =
             IF at = {} THEN <<None, None>>
             ELSE << ValueOf(report.rows[SetMax(at)][2]),
                     ValueOf(report.rows[SetMax(at)][3]) >>

\* C26, amended: the density section ends at the first tag row after its tag
\* and at nothing else: fully blank rows are passed over, the values are
\* those of the report cut at that tag row and without its blank rows. The
\* thickness section starts below the header row and ends at the first tag
\* row or empty line (a row of no cells): the values are those of the report
\* cut at that row, and rows of blank cells do not end it. A sector row
\* after the end changes no value.
C26_SectionEnd ==
  /\ \A i \in 1..Len(angio_done) :
       LET t == find_etdrs_density_index(report.rows)
           b == First({k \in (t + 1)..Len(report.rows) : IsTagRow(report.rows[k])})
       IN  t # 0 =>
             /\ angio_done[i].vd_dict = extract_etdrs_vd(Before(report.rows, b))
             /\ angio_done[i].vd_dict = extract_etdrs_vd(NoBlankRows(Before(report.rows, b)))
  /\ \A i \in 1..Len(oct_done) :
       LET t == find_etdrs_table(report.rows).etdrs_idx
           e == First({k \in (t + 2)..Len(report.rows) :
                         report.rows[k] = <<>> \/ IsTagRow(report.rows[k])})
       IN  t # 0 =>
             /\ oct_done[i].etdrs = extract_etdrs(Before(report.rows, e))
             /\ oct_done[i].etdrs = extract_etdrs(NoBlankCellRows(Before(report.rows, e)))

\* C26 witness: the density extractor read Outer Nasal below an empty line
\* and not the Center row below the next tag; the thickness extractor read
\* Inner Nasal below a row of blank cells and not Inner Temporal below an
\* empty line.
C26_Witness ==
  /\ angio_done # <<>>
  /\ oct_done # <<>>
  /\ \E k \in 1..Len(report.rows) : report.rows[k] = <<NEXT_TAG>>
  /\ \E k \in 1..Len(report.rows) : report.rows[k] = <<Empty, <<" ">>, Empty>>
  /\ angio_done[1].vd_dict[OUTER_NASAL] = <<125050>>
  /\ angio_done[1].vd_dict[CENTER] = <<1081>>
  /\ oct_done[1].etdrs[INNER_NASAL] = <<<<30000>>, <<25000>>>>
  /\ oct_done[1].etdrs[INNER_TEMPORAL] = <<None, None>>

\* ---- the columns of the thickness table
\* the number a cell holds, None for a text that is no number
NumberIn(text) ==
  IF text \in {TXT_250, TXT_260, TXT_300} THEN ValueOf(text) ELSE None

\* the row directly below the tag, <<>> when the tag is the last row
HeaderRow(rows) ==
  LET t == TagRow(rows, ETDRS_TAG)
  IN  IF t = 0 \/ t = Len(rows) THEN <<>> ELSE rows[t + 1]

\* the cells of the header row whose trimmed text ends with the marker e
MarkedCells(rows, e) ==
  {k \in 1..Len(HeaderRow(rows)) : EndsWith(Strip(HeaderRow(rows)[k]), e)}

\* the last row of the section that carries the sector name, 0 if none
LastNamed(rows, sec) ==
  LET at == NamedRows(rows, ThicknessRows(rows), sec, 1)
  IN  IF at = {} THEN 0 ELSE SetMax(at)

\* the value of side s (1 for R, 2 for L) of the sector is the cell k of its
\* row, missing when the row is shorter
ReadFromCell(done, sec, s, k) ==
  LET row == report.rows[LastNamed(report.rows, sec)]
  IN  done.etdrs[sec][s] = IF k <= Len(row) THEN NumberIn(row[k]) ELSE None

\* C27: for each side, the value read from every recognized sector row is
\* the cell at the index of the first cell of the header row whose trimmed
\* text ends with that side's marker letter, for every possible index of
\* that header cell including index 0.
C27_ResolvedColumn ==
  \A i \in 1..Len(oct_done) : \A s \in {1, 2} : \A sec \in Range(SECTORS) :
    LET at == MarkedCells(report.rows, <<EYE_R, EYE_L>>[s][1])
    IN  (at # {} /\ LastNamed(report.rows, sec) # 0) =>
          ReadFromCell(oct_done[i], sec, s, First(at))

\* C27, the header cells it holds for: those at an index above 0
C27_LaterColumns ==
  \A i \in 1..Len(oct_done) : \A s \in {1, 2} : \A sec \in Range(SECTORS) :
    LET at == MarkedCells(report.rows, <<EYE_R, EYE_L>>[s][1])
    IN  (at # {} /\ First(at) > 1 /\ LastNamed(report.rows, sec) # 0) =>
          ReadFromCell(oct_done[i], sec, s, First(at))

\* C27 witness: the R cell is the first cell of the header row; the R value
\* of Center is the last cell of its row, the L value.
C27_Witness ==
  /\ oct_done # <<>>
  /\ HeaderRow(report.rows) = <<THICKNESS_R, SECTOR, THICKNESS_L>>
  /\ report.rows[Len(report.rows)] = <<CENTER, TXT_250, TXT_260>>
  /\ oct_done[1].etdrs[CENTER] = <<<<26000>>, <<26000>>>>

\* C28: when the header row below the tag has no cell ending with a side's
\* marker letter (or the tag is the last row), every sector value of that
\* side is missing; a value is never read from a column other than the
\* resolved one.
C28_UnresolvedMissing ==
  \A i \in 1..Len(oct_done) : \A s \in {1, 2} : \A sec \in Range(SECTORS) :
    MarkedCells(report.rows, <<EYE_R, EYE_L>>[s][1]) = {} =>
      oct_done[i].etdrs[sec][s] = None

\* C28, the case it holds for: the tag is the last row of the report
C28_TagLast ==
  \A i \in 1..Len(oct_done) : \A sec \in Range(SECTORS) :
    TagRow(report.rows, ETDRS_TAG) = Len(report.rows) =>
      oct_done[i].etdrs[sec] = <<None, None>>

\* C28 witness: a header row with an R cell and no L cell, both eyes present;
\* the L column of Center in the row written holds the last cell of the
\* Center row.
C28_Witness ==
  /\ oct_done # <<>>
  /\ HeaderRow(report.rows) = <<SECTOR, THICKNESS_R>>
  /\ report.rows[Len(report.rows)] = <<CENTER, TXT_250, TXT_260>>
  /\ oct_done[1].has = <<TRUE, TRUE>>
  /\ oct_done[1].etdrs[CENTER] = <<<<25000>>, <<26000>>>>
  /\ oct_done[1].row_out[EYE_L \o <<"-">> \o CENTER] = <<26000>>

\* ---- the error-map expansion
\* the fine sector columns of the output that belong to a coarse quadrant
FineOf(e, q) ==
  IF q = CENTER THEN {e \o <<"_">> \o CENTER}
  ELSE {e \o <<"_">> \o INNER \o <<"_">> \o q, e \o <<"_">> \o OUTER \o <<"_">> \o q}

\* the header names the input columns, joined by sep, blanks aside
HeaderIs(sep) ==
  [i \in 1..Len(err_in.header) |-> Strip(err_in.header[i])] = ErrHeader(sep)

\* the code of quadrant number c (1..10, in the order of the header) in data
\* row k, "" when the row ends before it
CodeOf(k, c) ==
  IF c + 1 <= Len(err_in.data[k]) THEN err_in.data[k][c + 1] ELSE Empty

Holds(code, chars) == \E i \in 1..Len(code) : code[i] \in chars

\* every fine cell of both outputs is "1" or "" by the code of its quadrant
Expanded ==
  /\ err_out[1].written
  /\ \A k \in 1..Len(err_in.data) : \A c \in 1..10 :
       \A col \in FineOf(ERR_QUADS[c][1], ERR_QUADS[c][2]) :
             /\ err_out[1].rows_contains1[k][col] =
                  IF Holds(CodeOf(k, c), {"1"}) THEN ONE ELSE Empty
             /\ err_out[1].rows_contains2or9[k][col] =
                  IF Holds(CodeOf(k, c), {"2", "9"}) THEN ONE ELSE Empty

\* C29: for an input table with columns ID, L-Superior, L-Inferior, L-Nasal,
\* L-Temporal, L-Center, R-Superior, R-Inferior, R-Temporal, R-Nasal,
\* R-Center, each of the 18 fine sector cells of the contains1 output is "1"
\* exactly when the code of its coarse quadrant contains the digit 1 and
\* blank otherwise; the contains2or9 output is "1" exactly when that code
\* contains 2 or 9.
C29_Expansion ==
  (err_out # <<>> /\ err_in.data # <<>> /\ HeaderIs(<<"-">>)) => Expanded

\* C29, for an input whose columns are named L_Superior ... R_Center
C29_UnderscoreInput ==
  (err_out # <<>> /\ err_in.data # <<>> /\ HeaderIs(<<"_">>)) => Expanded

\* C29 witness: the input has the columns of the docstring and the code 12 in
\* L-Superior; both outputs are written and their L_Inner_Superior cells are
\* blank.
C29_Witness ==
  /\ err_out # <<>>
  /\ err_in.header = ErrHeader(<<"-">>)
  /\ Len(err_in.data) = 1
  /\ err_in.data[1][2] = TXT_12
  /\ err_out[1].written
  /\ err_out[1].rows_contains1[1][EYE_L \o <<"_">> \o INNER \o <<"_">> \o Q_SUPERIOR] = Empty
  /\ err_out[1].rows_contains2or9[1][EYE_L \o <<"_">> \o INNER \o <<"_">> \o Q_SUPERIOR] = Empty
  /\ err_out[1].rows_contains1[1][ID_COL] = EG0001

\* C29, the same row under the names L_Superior ...: both cells are "1"
C29_UnderscoreWitness ==
  /\ err_out # <<>>
  /\ err_in.header = ErrHeader(<<"_">>)
  /\ Len(err_in.data) = 1
  /\ err_in.data[1][2] = TXT_12
  /\ err_out[1].rows_contains1[1][EYE_L \o <<"_">> \o INNER \o <<"_">> \o Q_SUPERIOR] = ONE
  /\ err_out[1].rows_contains2or9[1][EYE_L \o <<"_">> \o OUTER \o <<"_">> \o Q_SUPERIOR] = ONE

====
